---- MODULE Spec2Model ----
(***************************************************************************)
(* Model of the ContextBench context-retrieval evaluation engine:         *)
(* contextbench/evaluate.py (path resolver, step filter, evaluate_instance,*)
(* aggregate_results, the batch loop of main), contextbench/metrics/       *)
(* compute.py, contextbench/parsers/trajectory.py and                      *)
(* contextbench/extractors/treesitter.py.                                  *)
(*                                                                         *)
(* A path string is a sequence of tokens.  The tokens "/", "\\", " ", "'" *)
(* and "." are single characters; every other token is an atomic run of   *)
(* name characters ("src", "a.py").  Numbers that Python computes as      *)
(* floats are exact fractions <<numerator, denominator>> in lowest terms. *)
(***************************************************************************)
EXTENDS Integers, Sequences, FiniteSets, TLC

VARIABLES
    cand,       \* _resolve_repo_relpath: the `path` argument
    resolved,   \* _resolve_repo_relpath: the returned string, NoValue before the call
    rpc,        \* position of the resolver run: "idle", "call" or "done"
    wfiles,     \* regular files of the worktree besides src/a.py and b.py
    mgold,      \* metrics: the Gold context of the instance
    msteps,     \* metrics: the list of Steps given to compute_trajectory_metrics
    mfinal,     \* metrics: the final Step given to the final metrics
    mres,       \* metrics: the returned dict, NoValue before the call
    mpc,        \* position of the metrics run: "idle", "call" or "done"
    cpin,       \* coverage_precision: <<pred_size, gold_size, inter_size>>
    cpout,      \* coverage_precision: the returned pair, NoValue before the call
    cppc,       \* position of the coverage_precision run: "idle", "call" or "done"
    ein,        \* EditLoc: [model_patch, gold, gold_patch] of the instance
    eres,       \* EditLoc: results["editloc"], NoValue before the call
    epc,        \* position of the EditLoc run: "idle", "call", "done" or "none"
    dpreds,     \* main: the predictions of pred_list read so far
    dresults,   \* main: the list `results`
    dlast,      \* evaluate_instance: the filtered steps of the last evaluated instance
    dagg,       \* main: the dict `agg`, NoValue before aggregate_results
    derrors,    \* main: the dict `error_counts`
    dpc,        \* position of main: "loop", "crashed" or "done"
    tin,        \* extract_def_set_in_spans: the spans_by_file argument
    tout,       \* extract_def_set_in_spans: the returned set
    tpc,        \* position of the extractor run: "idle", "call" or "done"
    ain,        \* adapter: the raw trajectory record given to the adapter
    aout,       \* adapter: the unified trajectory it returns
    apc,        \* position of the adapter run: "idle", "call", "done" or "raised"
    iin,        \* line intervals: the argument lists <<a, b>>
    iout,       \* line intervals: the results, NoValue before the call
    ipc,        \* position of the interval run: "idle", "call" or "done"
    gargs,      \* run of main: the arguments, the gold instances, the backend and the output file found
    gfile,      \* run of main: the output file, [exists, rows]
    gtasks,     \* run of main: the instances still to process
    gresults,   \* evaluation mode: the list `results`
    gdone,      \* run of main: the keys of the instances processed so far
    gerrors,    \* extraction mode: the counter `errors`
    gpc,        \* position of the run: "idle", "start", "loop", "exit" or "crashed"
    grc         \* run of main: the exit status, -1 while running

rvars == <<cand, resolved, rpc, wfiles>>
mvars == <<mgold, msteps, mfinal, mres, mpc>>
cvars == <<cpin, cpout, cppc>>
evars == <<ein, eres, epc>>
dvars == <<dpreds, dresults, dlast, dagg, derrors, dpc>>
tvars == <<tin, tout, tpc>>
avars == <<ain, aout, apc>>
ivars == <<iin, iout, ipc>>
gvars == <<gargs, gfile, gtasks, gresults, gdone, gerrors, gpc, grc>>
vars == <<cand, resolved, rpc, wfiles, mgold, msteps, mfinal, mres, mpc, cpin, cpout, cppc,
          ein, eres, epc, dpreds, dresults, dlast, dagg, derrors, dpc,
          tin, tout, tpc, ain, aout, apc,
          iin, iout, ipc,
          gargs, gfile, gtasks, gresults, gdone, gerrors, gpc, grc>>

NoValue == "NoValue"

(***************************************************************************)
(* Bounds                                                                  *)
(***************************************************************************)
\* most path segments of an enumerated candidate path
MaxSegs == 3
\* most steps of an enumerated trajectory
MaxSteps == 2
\* largest size given to coverage_precision
MaxSize == 5

(***************************************************************************)
(* Python string operations on token sequences                            *)
(***************************************************************************)
EmptyStr == <<>>

RECURSIVE LStripSet(_, _)
\* str.lstrip(chars)
LStripSet(s, chars) ==
    IF s # <<>> /\ Head(s) \in chars THEN LStripSet(Tail(s), chars) ELSE s

RECURSIVE RStripSet(_, _)
\* str.rstrip(chars)
RStripSet(s, chars) ==
    IF s # <<>> /\ s[Len(s)] \in chars
    THEN RStripSet(SubSeq(s, 1, Len(s) - 1), chars)
    ELSE s

\* str.strip(): whitespace off both ends
Strip(s) == RStripSet(LStripSet(s, {" "}), {" "})

\* str.strip("'\""): the quote characters off both ends
StripQuotes(s) == RStripSet(LStripSet(s, {"'"}), {"'"})

\* str.replace("\\", "/")
ReplaceBackslash(s) == [i \in 1..Len(s) |-> IF s[i] = "\\" THEN "/" ELSE s[i]]

\* str.startswith("./")
StartsWithDotSlash(s) == Len(s) >= 2 /\ s[1] = "." /\ s[2] = "/"

RECURSIVE DropDotSlash(_)
\* while p.startswith("./"): p = p[2:]
DropDotSlash(s) ==
    IF StartsWithDotSlash(s) THEN DropDotSlash(SubSeq(s, 3, Len(s))) ELSE s

\* if p.startswith("/"): p = p.lstrip("/")
DropLeadingSlashes(s) == LStripSet(s, {"/"})

RECURSIVE SplitSlash(_, _)
\* str.split("/"): the list of segments, empty ones included; cur is the
\* segment being read
SplitSlash(s, cur) ==
    IF s = <<>> THEN <<cur>>
    ELSE IF Head(s) = "/" THEN <<cur>> \o SplitSlash(Tail(s), <<>>)
    ELSE SplitSlash(Tail(s), Append(cur, Head(s)))

\* [x for x in p.split("/") if x]
Parts(s) == SelectSeq(SplitSlash(s, <<>>), LAMBDA x : x # <<>>)

RECURSIVE JoinSlash(_)
\* "/".join(parts)
JoinSlash(parts) ==
    IF parts = <<>> THEN <<>>
    ELSE IF Len(parts) = 1 THEN parts[1]
    ELSE parts[1] \o <<"/">> \o JoinSlash(Tail(parts))

(***************************************************************************)
(* The checked-out worktree and the file system around it.  An absolute   *)
(* real path is the sequence of its components.                            *)
(***************************************************************************)
RepoReal == << <<"repo">> >>

FA == <<"src", "/", "a.py">>
FB == <<"b.py">>

\* regular files every run has: repo/src/a.py and repo/b.py inside,
\* /etc/passwd outside
BaseFiles ==
    { << <<"repo">>, <<"src">>, <<"a.py">> >>,
      << <<"repo">>, <<"b.py">> >>,
      << <<"etc">>, <<"passwd">> >> }

\* the regular files of the run: the worktree may hold more files
RealFiles == BaseFiles \cup wfiles

\* symbolic links: repo/out points at /etc/passwd
SymlinkTarget(p) ==
    IF p = << <<"repo">>, <<"out">> >> THEN << <<"etc">>, <<"passwd">> >> ELSE p

RECURSIVE JoinRealPath(_, _)
\* posixpath.realpath, non-strict: "" and "." are skipped, ".." drops the
\* last component (the root stays), a symbolic link is followed, a missing
\* component is kept as it is
JoinRealPath(path, rest) ==
    IF rest = <<>> THEN path
    ELSE LET name == Head(rest) IN
         IF name = <<>> \/ name = <<".">> THEN JoinRealPath(path, Tail(rest))
         ELSE IF name = <<".", ".">>
              THEN JoinRealPath(IF path = <<>> THEN path
                                ELSE SubSeq(path, 1, Len(path) - 1), Tail(rest))
         ELSE JoinRealPath(SymlinkTarget(Append(path, name)), Tail(rest))

\* os.path.realpath(os.path.join(repo_real, p)) for a relative p
RealPathInRepo(p) == JoinRealPath(RepoReal, SplitSlash(p, <<>>))

\* os.path.commonpath([repo_real, target_real]) == repo_real
UnderRepo(target) ==
    Len(target) >= Len(RepoReal) /\ SubSeq(target, 1, Len(RepoReal)) = RepoReal

\* os.path.isabs
IsAbs(p) == p # <<>> /\ p[1] = "/"

\* the path as the operating system reads it: real path inside the
\* worktree and an existing regular file
NamesRepoFile(p) ==
    /\ p # <<>>
    /\ ~IsAbs(p)
    /\ UnderRepo(RealPathInRepo(p))
    /\ RealPathInRepo(p) \in RealFiles

\* mutant of _is_repo_file: the commonpath test is left out
IsRepoFileNoContainment(rel_path) ==
    LET p == Strip(rel_path) IN
    /\ p # <<>>
    /\ ~IsAbs(p)
    /\ RealPathInRepo(p) \in RealFiles

\* _is_repo_file(repo_dir, rel_path)
IsRepoFile(rel_path) ==
    LET p == Strip(rel_path) IN
    /\ p # <<>>
    /\ ~IsAbs(p)
    /\ UnderRepo(RealPathInRepo(p))
    /\ RealPathInRepo(p) \in RealFiles

\* the suffixes parts[i:] of the loop of _resolve_repo_relpath, joined
SuffixCand(parts, i) == JoinSlash(SubSeq(parts, i, Len(parts)))

\* p after the normalisation steps of _resolve_repo_relpath
NormalizePath(path) ==
    DropLeadingSlashes(DropDotSlash(ReplaceBackslash(StripQuotes(Strip(path)))))

\* mutant of _resolve_repo_relpath: the loop runs from the shortest suffix
ResolveRepoRelpathShortest(path) ==
    LET parts == Parts(NormalizePath(path))
        hits  == {i \in 1..Len(parts) : IsRepoFile(SuffixCand(parts, i))}
    IN  IF hits = {} THEN EmptyStr
        ELSE SuffixCand(parts, CHOOSE i \in hits : \A j \in hits : i >= j)

\* _resolve_repo_relpath(repo_dir, path)
ResolveRepoRelpath(path) ==
    LET parts == Parts(NormalizePath(path))
        hits  == {i \in 1..Len(parts) : IsRepoFile(SuffixCand(parts, i))}
    IN  IF hits = {} THEN EmptyStr
        ELSE SuffixCand(parts, CHOOSE i \in hits : \A j \in hits : i <= j)

(***************************************************************************)
(* Exact fractions for the values Python computes as floats               *)
(***************************************************************************)
Abs(n) == IF n < 0 THEN -n ELSE n

RECURSIVE GCD(_, _)
GCD(a, b) == IF b = 0 THEN a ELSE GCD(b, a % b)

\* n / d for d > 0, in lowest terms
Frac(n, d) ==
    LET g == GCD(Abs(n), d) IN <<n \div g, d \div g>>

FZero == <<0, 1>>
FOne == <<1, 1>>

FAdd(a, b) == Frac(a[1] * b[2] + b[1] * a[2], a[2] * b[2])
FSub(a, b) == Frac(a[1] * b[2] - b[1] * a[2], a[2] * b[2])
FDivInt(a, k) == Frac(a[1], a[2] * k)
FLeq(a, b) == a[1] * b[2] <= b[1] * a[2]

RECURSIVE FSum(_)
\* sum(...) of a list of fractions
FSum(xs) == IF xs = <<>> THEN FZero ELSE FAdd(Head(xs), FSum(Tail(xs)))

RECURSIVE SumFun(_, _)
\* sum(f[x] for x in S)
SumFun(f, S) ==
    IF S = {} THEN 0
    ELSE LET x == CHOOSE y \in S : TRUE IN f[x] + SumFun(f, S \ {x})

RECURSIVE SumSeq(_)
SumSeq(xs) == IF xs = <<>> THEN 0 ELSE Head(xs) + SumSeq(Tail(xs))

\* dict.get(f, [])
Get(d, f) == IF f \in DOMAIN d THEN d[f] ELSE <<>>

\* d.setdefault(f, []).append(x)
PutAppend(d, f, x) ==
    [g \in DOMAIN d \cup {f} |-> IF g = f THEN Append(Get(d, f), x) ELSE d[g]]

EmptyDict == [f \in {} |-> <<>>]

SeqToSet(xs) == {xs[i] : i \in 1..Len(xs)}

(***************************************************************************)
(* metrics/compute.py: coverage_precision and the line-interval algebra   *)
(***************************************************************************)
\* mutant of coverage_precision: an empty gold gives coverage 0.0
CoveragePrecisionEmptyGoldZero(pred_size, gold_size, inter_size) ==
    [cov  |-> IF gold_size > 0 THEN Frac(inter_size, gold_size) ELSE FZero,
     prec |-> IF pred_size > 0 THEN Frac(inter_size, pred_size) ELSE FOne]

\* coverage_precision(pred_size, gold_size, inter_size)
CoveragePrecision(pred_size, gold_size, inter_size) ==
    [cov  |-> IF gold_size > 0 THEN Frac(inter_size, gold_size) ELSE FOne,
     prec |-> IF pred_size > 0 THEN Frac(inter_size, pred_size) ELSE FOne]

\* tuple order of Python: sorted() on (start, end) pairs
IvLess(a, b) == a[1] < b[1] \/ (a[1] = b[1] /\ a[2] < b[2])

RECURSIVE InsertIv(_, _)
InsertIv(x, xs) ==
    IF xs = <<>> THEN <<x>>
    ELSE IF IvLess(Head(xs), x) THEN <<Head(xs)>> \o InsertIv(x, Tail(xs))
    ELSE <<x>> \o xs

RECURSIVE SortIv(_)
\* sorted(intervals)
SortIv(xs) == IF xs = <<>> THEN <<>> ELSE InsertIv(Head(xs), SortIv(Tail(xs)))

Max(a, b) == IF a >= b THEN a ELSE b
Min(a, b) == IF a <= b THEN a ELSE b

RECURSIVE MergeLineLoop(_, _)
\* the loop of _merge_line_intervals over sorted_intervals[1:]
MergeLineLoop(merged, rest) ==
    IF rest = <<>> THEN merged
    ELSE LET current == Head(rest)
             last == merged[Len(merged)]
         IN IF current[1] <= last[2] + 1
            THEN MergeLineLoop(
                    [merged EXCEPT ![Len(merged)] = <<last[1], Max(last[2], current[2])>>],
                    Tail(rest))
            ELSE MergeLineLoop(Append(merged, current), Tail(rest))

\* mutant of _merge_line_intervals: nothing is merged, the list is only sorted
MergeLineIntervalsSortOnly(intervals) == SortIv(intervals)

\* _merge_line_intervals(intervals)
MergeLineIntervals(intervals) ==
    IF intervals = <<>> THEN <<>>
    ELSE LET sorted_intervals == SortIv(intervals)
         IN MergeLineLoop(<<Head(sorted_intervals)>>, Tail(sorted_intervals))

RECURSIVE SumIvLen(_)
SumIvLen(xs) ==
    IF xs = <<>> THEN 0 ELSE (Head(xs)[2] - Head(xs)[1] + 1) + SumIvLen(Tail(xs))

\* _line_interval_length(intervals)
LineIntervalLength(intervals) == SumIvLen(MergeLineIntervals(intervals))

RECURSIVE IntersectLoop(_, _, _, _)
\* the two-pointer loop of _line_interval_intersect
IntersectLoop(a_m, b_m, i, j) ==
    IF ~(i <= Len(a_m) /\ j <= Len(b_m)) THEN <<>>
    ELSE LET overlap == <<Max(a_m[i][1], b_m[j][1]), Min(a_m[i][2], b_m[j][2])>>
             here == IF overlap[1] <= overlap[2] THEN <<overlap>> ELSE <<>>
         IN IF a_m[i][2] < b_m[j][2] THEN here \o IntersectLoop(a_m, b_m, i + 1, j)
            ELSE IF b_m[j][2] < a_m[i][2] THEN here \o IntersectLoop(a_m, b_m, i, j + 1)
            ELSE here \o IntersectLoop(a_m, b_m, i + 1, j + 1)

\* mutant of _line_interval_intersect: only the first list is merged
LineIntervalIntersectFirstMerged(a, b) ==
    IntersectLoop(MergeLineIntervals(a), b, 1, 1)

\* _line_interval_intersect(a, b)
LineIntervalIntersect(a, b) ==
    IntersectLoop(MergeLineIntervals(a), MergeLineIntervals(b), 1, 1)

\* _line_interval_intersect_size(a, b)
LineIntervalIntersectSize(a, b) == LineIntervalLength(LineIntervalIntersect(a, b))

\* line_total_lines(lines_by_file)
LineTotalLines(lines_by_file) ==
    SumFun([f \in DOMAIN lines_by_file |-> LineIntervalLength(lines_by_file[f])],
           DOMAIN lines_by_file)

\* line_intersection_lines(a, b)
LineIntersectionLines(a, b) ==
    LET fs == DOMAIN a \cup DOMAIN b IN
    SumFun([f \in fs |-> LineIntervalIntersectSize(Get(a, f), Get(b, f))], fs)

(***************************************************************************)
(* Byte intervals (contextbench/core): half-open <<start, end>>           *)
(***************************************************************************)
\* lines of every file of the worktree
FileLines == 3
\* bytes of every line
LineBytes == 2

\* the file exists and can be opened
FileExists(f) == NamesRepoFile(f)

\* core.fileio.line_to_byte(abs_path, start_line, end_line): the bytes of
\* the lines start_line..end_line, NoValue (None) when there are none
LineToByte(f, start_line, end_line) ==
    IF ~FileExists(f) \/ start_line < 1 \/ end_line < start_line \/ start_line > FileLines
    THEN NoValue
    ELSE <<(start_line - 1) * LineBytes, Min(end_line, FileLines) * LineBytes>>

RECURSIVE MergeByteLoop(_, _)
MergeByteLoop(merged, rest) ==
    IF rest = <<>> THEN merged
    ELSE LET current == Head(rest)
             last == merged[Len(merged)]
         IN IF current[1] < last[2]
            THEN MergeByteLoop(
                    [merged EXCEPT ![Len(merged)] = <<last[1], Max(last[2], current[2])>>],
                    Tail(rest))
            ELSE MergeByteLoop(Append(merged, current), Tail(rest))

\* core.intervals.merge: byte intervals merge only when they overlap
Merge(intervals) ==
    IF intervals = <<>> THEN <<>>
    ELSE LET sorted_intervals == SortIv(intervals)
         IN MergeByteLoop(<<Head(sorted_intervals)>>, Tail(sorted_intervals))

RECURSIVE SumByteLen(_)
SumByteLen(xs) ==
    IF xs = <<>> THEN 0 ELSE (Head(xs)[2] - Head(xs)[1]) + SumByteLen(Tail(xs))

\* core.intervals.length
Length(intervals) == SumByteLen(Merge(intervals))

\* core.intervals.intersect_size
IntersectSize(a, b) ==
    LET a_m == Merge(a)
        b_m == Merge(b)
        pairs == (1..Len(a_m)) \X (1..Len(b_m))
    IN SumFun([pr \in pairs |->
                  Max(0, Min(a_m[pr[1]][2], b_m[pr[2]][2])
                         - Max(a_m[pr[1]][1], b_m[pr[2]][1]))],
              pairs)

\* span_total_bytes(spans_by_file)
SpanTotalBytes(spans_by_file) ==
    SumFun([f \in DOMAIN spans_by_file |-> Length(spans_by_file[f])],
           DOMAIN spans_by_file)

\* span_intersection_bytes(a, b)
SpanIntersectionBytes(a, b) ==
    LET fs == DOMAIN a \cup DOMAIN b IN
    SumFun([f \in fs |-> IntersectSize(Get(a, f), Get(b, f))], fs)

(***************************************************************************)
(* extractors/treesitter.py over the definitions of the worktree's files  *)
(***************************************************************************)
\* files a worktree may hold besides src/a.py and b.py: k.kt (Kotlin),
\* s.java (Java, with a definition whose best name is the scoped identifier
\* K.run), n.txt (no language) and bad.py (a Python file that cannot be read)
FKotlin == <<"k.kt">>
FJava == <<"s.java">>
FText == <<"n.txt">>
FUnreadable == <<"bad.py">>

NoLang == "none"

\* LANG_MAP.get(os.path.splitext(file_path.lower())[1])
LangOf(f) ==
    IF f = FKotlin THEN "kotlin"
    ELSE IF f = FJava THEN "java"
    ELSE IF f = FText THEN NoLang
    ELSE "python"

\* open(file_path, 'rb') or parser.parse raises
ParseFails(f) == f = FUnreadable

\* extract_named_defs(abs_path): (kind, name, start_byte, end_byte) of the
\* definitions of the file; a name is the sequence of its dotted parts
NamedDefs(f) ==
    IF ~FileExists(f) THEN {}
    ELSE IF LangOf(f) = NoLang \/ ParseFails(f) THEN {}
    ELSE IF RealPathInRepo(f) = << <<"repo">>, <<"src">>, <<"a.py">> >>
    THEN { <<"function_definition", <<"f">>, 0, 2 * LineBytes>>,
           <<"function_definition", <<"g">>, 2 * LineBytes, 3 * LineBytes>> }
    ELSE IF RealPathInRepo(f) = << <<"repo">>, <<"k.kt">> >>
    THEN { <<"function_declaration", <<"run">>, 0, 2 * LineBytes>> }
    ELSE IF RealPathInRepo(f) = << <<"repo">>, <<"s.java">> >>
    THEN { <<"method_declaration", <<"K", "run">>, 0, LineBytes>>,
           <<"method_declaration", <<"run">>, LineBytes, 2 * LineBytes>>,
           <<"method_declaration", <<"run">>, 2 * LineBytes, 3 * LineBytes>> }
    ELSE { <<"class_definition", <<"C">>, 0, 3 * LineBytes>>,
           <<"function_definition", <<"m">>, LineBytes, 2 * LineBytes>> }

\* extract_defs(abs_path): (kind, start_byte, end_byte)
ExtractDefs(f) == { <<d[1], d[3], d[4]>> : d \in NamedDefs(f) }

\* extract_def_set_in_spans(spans_by_file, repo_dir)
ExtractDefSetInSpans(spans_by_file) ==
    UNION { { <<f, d[1], d[2], d[3]>> :
                d \in { d \in ExtractDefs(f) :
                          \E i \in 1..Len(spans_by_file[f]) :
                              ~(d[3] < spans_by_file[f][i][1]
                                \/ d[2] > spans_by_file[f][i][2]) } } :
            f \in { g \in DOMAIN spans_by_file : FileExists(g) } }

\* mutant of the candidate loop: the part after the last dot is tried first
DefsOfSymbolLastFirst(f, sym) ==
    LET exact == { d \in NamedDefs(f) : d[2] = sym }
        last == { d \in NamedDefs(f) : Len(sym) > 1 /\ d[2] = <<sym[Len(sym)]>> }
    IN IF last # {} THEN last ELSE exact

\* the definitions one declared name resolves to: the whole name first,
\* then the part after the last dot
DefsOfSymbol(f, sym) ==
    LET exact == { d \in NamedDefs(f) : d[2] = sym }
        last == { d \in NamedDefs(f) : Len(sym) > 1 /\ d[2] = <<sym[Len(sym)]>> }
    IN IF exact # {} THEN exact ELSE last

\* extract_def_set_from_symbol_names(pred_symbols_by_file, repo_dir)
ExtractDefSetFromSymbolNames(symbols_by_file) ==
    UNION { { <<f, d[1], d[3], d[4]>> :
                d \in UNION { DefsOfSymbol(f, symbols_by_file[f][i]) :
                                i \in { k \in 1..Len(symbols_by_file[f]) :
                                          symbols_by_file[f][k] # <<>> } } } :
            f \in { g \in DOMAIN symbols_by_file :
                      g # <<>> /\ symbols_by_file[g] # <<>> /\ FileExists(g) } }

(***************************************************************************)
(* A Step of parsers/trajectory.py and its representations                *)
(***************************************************************************)
\* Step(files, spans, symbols)
Step(files, spans, symbols) == [files |-> files, spans |-> spans, symbols |-> symbols]

Span(f, s, e) == [file |-> f, start_line |-> s, end_line |-> e]

RECURSIVE CollectLines(_, _)
\* the first loop of _step_to_line_intervals and of _step_lines
CollectLines(spans, result) ==
    IF spans = <<>> THEN result
    ELSE LET span == Head(spans) IN
         IF span.file # <<>> /\ span.start_line > 0 /\ span.end_line > 0
         THEN CollectLines(Tail(spans),
                  PutAppend(result, span.file, <<span.start_line, span.end_line>>))
         ELSE CollectLines(Tail(spans), result)

\* _step_to_line_intervals(step, repo_dir)
StepToLineIntervals(step) ==
    LET result == CollectLines(step.spans, EmptyDict)
    IN [f \in DOMAIN result |-> MergeLineIntervals(result[f])]

RECURSIVE CollectBytes(_, _)
\* the first loop of _step_to_byte_spans and of _step_spans
CollectBytes(spans, result) ==
    IF spans = <<>> THEN result
    ELSE LET span == Head(spans)
             byte_span == LineToByte(span.file, span.start_line, span.end_line)
         IN IF span.file # <<>> /\ byte_span # NoValue
            THEN CollectBytes(Tail(spans), PutAppend(result, span.file, byte_span))
            ELSE CollectBytes(Tail(spans), result)

\* _step_to_byte_spans(step, repo_dir)
StepToByteSpans(step) ==
    LET result == CollectBytes(step.spans, EmptyDict)
    IN [f \in DOMAIN result |-> Merge(result[f])]

\* evaluate.py: _step_spans(step, repo_dir)
StepSpans(step) ==
    LET result == CollectBytes(step.spans, EmptyDict)
    IN [f \in DOMAIN result |-> Merge(result[f])]

\* parsers.diff._merge_line_intervals, which _step_lines imports
DiffMergeLineIntervals(intervals) == MergeLineIntervals(intervals)

\* evaluate.py: _step_lines(step)
StepLines(step) ==
    LET result == CollectLines(step.spans, EmptyDict)
    IN [f \in DOMAIN result |-> DiffMergeLineIntervals(result[f])]

\* the symbols of a step: from its declared names, else from its spans
StepSymbols(step, byte_spans) ==
    IF DOMAIN step.symbols # {}
    THEN ExtractDefSetFromSymbolNames(step.symbols)
    ELSE ExtractDefSetInSpans(byte_spans)

(***************************************************************************)
(* metrics/compute.py: final and trajectory metrics                       *)
(***************************************************************************)
Gran(cp, inter, gold_size, pred_size) ==
    [coverage |-> cp.cov, precision |-> cp.prec, intersection |-> inter,
     gold_size |-> gold_size, pred_size |-> pred_size]

\* compute_granularity_metrics(pred_files, pred_defs, pred_spans, gold_files,
\*                             gold_defs, gold_spans, pred_lines, gold_lines)
ComputeGranularityMetrics(pred_files, pred_defs, pred_spans, gold_files, gold_defs, gold_spans, pred_lines, gold_lines) ==
    LET file_inter == Cardinality(pred_files \cap gold_files)
        def_inter == Cardinality(pred_defs \cap gold_defs)
        span_pred == SpanTotalBytes(pred_spans)
        span_gold == SpanTotalBytes(gold_spans)
        span_inter == SpanIntersectionBytes(pred_spans, gold_spans)
        line_pred == LineTotalLines(pred_lines)
        line_gold == LineTotalLines(gold_lines)
        line_inter == LineIntersectionLines(pred_lines, gold_lines)
    IN [file |-> Gran(CoveragePrecision(Cardinality(pred_files),
                                        Cardinality(gold_files), file_inter),
                      file_inter, Cardinality(gold_files), Cardinality(pred_files)),
        symbol |-> Gran(CoveragePrecision(Cardinality(pred_defs),
                                          Cardinality(gold_defs), def_inter),
                        def_inter, Cardinality(gold_defs), Cardinality(pred_defs)),
        span |-> Gran(CoveragePrecision(span_pred, span_gold, span_inter),
                      span_inter, span_gold, span_pred),
        line |-> Gran(CoveragePrecision(line_pred, line_gold, line_inter),
                      line_inter, line_gold, line_pred)]

\* the accumulators of compute_trajectory_metrics before the first step
TrajAcc0 ==
    [union_files |-> {}, union_symbols |-> {},
     union_spans |-> EmptyDict, union_lines |-> EmptyDict,
     sum_files |-> 0, sum_symbols |-> 0, sum_spans |-> 0, sum_lines |-> 0,
     per_step |-> <<>>]

\* union_spans[f] = merge(union_spans.get(f, []) + ivs) for f, ivs in step_spans.items()
UnionSpansInto(union_spans, step_spans) ==
    [f \in DOMAIN union_spans \cup DOMAIN step_spans |->
        IF f \in DOMAIN step_spans THEN Merge(Get(union_spans, f) \o step_spans[f])
        ELSE union_spans[f]]

\* mutant of the union_lines update: the step's lines replace the union
UnionLinesReplaced(union_lines, step_lines) == step_lines

\* union_lines[f] = _merge_line_intervals(union_lines.get(f, []) + intervals)
UnionLinesInto(union_lines, step_lines) ==
    [f \in DOMAIN union_lines \cup DOMAIN step_lines |->
        IF f \in DOMAIN step_lines
        THEN MergeLineIntervals(Get(union_lines, f) \o step_lines[f])
        ELSE union_lines[f]]

\* one iteration of the loop of compute_trajectory_metrics
TrajStepBody(acc, step, gold_files, gold_symbols, gold_spans, gold_lines) ==
    LET step_files == SeqToSet(step.files)
        step_lines == StepToLineIntervals(step)
        step_spans == StepToByteSpans(step)
        step_symbols == StepSymbols(step, step_spans)
        union_files == acc.union_files \cup step_files
        union_symbols == acc.union_symbols \cup step_symbols
        union_spans == UnionSpansInto(acc.union_spans, step_spans)
        union_lines == UnionLinesInto(acc.union_lines, step_lines)
        span_gold == SpanTotalBytes(gold_spans)
        line_gold == LineTotalLines(gold_lines)
        cov == [file |-> IF gold_files # {}
                         THEN Frac(Cardinality(union_files \cap gold_files),
                                   Cardinality(gold_files))
                         ELSE FOne,
                symbol |-> IF gold_symbols # {}
                           THEN Frac(Cardinality(union_symbols \cap gold_symbols),
                                     Cardinality(gold_symbols))
                           ELSE FOne,
                span |-> IF span_gold > 0
                         THEN Frac(SpanIntersectionBytes(union_spans, gold_spans), span_gold)
                         ELSE FOne,
                line |-> IF DOMAIN gold_lines # {}
                         THEN IF line_gold > 0
                              THEN Frac(LineIntersectionLines(union_lines, gold_lines),
                                        line_gold)
                              ELSE FOne
                         ELSE FZero]
    IN [union_files |-> union_files,
        union_symbols |-> union_symbols,
        union_spans |-> union_spans,
        union_lines |-> union_lines,
        sum_files |-> acc.sum_files + Cardinality(step_files),
        sum_symbols |-> acc.sum_symbols + Cardinality(step_symbols),
        sum_spans |-> acc.sum_spans + SpanTotalBytes(step_spans),
        sum_lines |-> acc.sum_lines + LineTotalLines(step_lines),
        per_step |-> Append(acc.per_step, cov)]

RECURSIVE TrajLoop(_, _, _, _, _, _)
\* for t, step in enumerate(steps)
TrajLoop(acc, steps, gold_files, gold_symbols, gold_spans, gold_lines) ==
    IF steps = <<>> THEN acc
    ELSE TrajLoop(TrajStepBody(acc, Head(steps), gold_files, gold_symbols,
                               gold_spans, gold_lines),
                  Tail(steps), gold_files, gold_symbols, gold_spans, gold_lines)

Grans == {"file", "symbol", "span", "line"}

\* mutant of the redundancy lines: sum / union instead of union / sum
RedundancySwapped(union_size, sum_size) ==
    IF sum_size > 0 /\ union_size > 0 THEN FSub(FOne, Frac(sum_size, union_size))
    ELSE FZero

\* 1 - union / sum if sum > 0 else 0.0
Redundancy(union_size, sum_size) ==
    IF sum_size > 0 THEN FSub(FOne, Frac(union_size, sum_size)) ELSE FZero

\* compute_trajectory_metrics(steps, gold_files, gold_symbols, gold_spans,
\*                            repo_dir, gold_lines)
ComputeTrajectoryMetrics(steps, gold_files, gold_symbols, gold_spans, gold_lines) ==
    LET T == Len(steps) IN
    IF T = 0
    THEN [steps |-> <<>>,
          auc_coverage |-> [g \in Grans |-> FZero],
          redundancy |-> [g \in Grans |-> FZero]]
    ELSE LET acc == TrajLoop(TrajAcc0, steps, gold_files, gold_symbols,
                             gold_spans, gold_lines)
         IN [steps |-> acc.per_step,
             auc_coverage |->
                 [g \in Grans |->
                     FDivInt(FSum([t \in 1..T |-> acc.per_step[t][g]]), T)],
             redundancy |->
                 [file |-> Redundancy(Cardinality(acc.union_files), acc.sum_files),
                  symbol |-> Redundancy(Cardinality(acc.union_symbols), acc.sum_symbols),
                  span |-> Redundancy(SpanTotalBytes(acc.union_spans), acc.sum_spans),
                  line |-> Redundancy(LineTotalLines(acc.union_lines), acc.sum_lines)]]

(***************************************************************************)
(* Candidate paths                                                         *)
(***************************************************************************)
SegPool ==
    { <<"src">>, <<"a.py">>, <<"b.py">>, <<"testbed">>, <<"out">>,
      <<".", ".">>, <<" ", "b.py">>, <<"a.py", " ">> }

LeadPool == { <<>>, <<"/">>, <<".", "/">>, <<"'">>, <<" ">> }

TrailPool == { <<>>, <<"'">>, <<" ", "'">>, <<"/">> }

SepPool == { "/", "\\" }

RECURSIVE JoinWith(_, _)
JoinWith(segs, sep) ==
    IF segs = <<>> THEN <<>>
    ELSE IF Len(segs) = 1 THEN segs[1]
    ELSE segs[1] \o <<sep>> \o JoinWith(Tail(segs), sep)

SegLists == UNION { [1..n -> SegPool] : n \in 0..MaxSegs }

\* the paths of the testable properties of the specification
NamedCands ==
    { <<"/", "testbed", "/", "src", "/", "a.py">>,
      <<"src", "/", "a.py">>,
      <<"/", "etc", "/", "passwd">> }

Candidates ==
    NamedCands \cup
    { lead \o JoinWith(segs, sep) \o trail :
        lead \in LeadPool, segs \in SegLists, sep \in SepPool, trail \in TrailPool }

(***************************************************************************)
(* Gold contexts (parsers/gold.py): a list of GoldSpan                    *)
(***************************************************************************)
GoldPool ==
    { <<>>,
      <<Span(FA, 1, 2)>>,
      <<Span(FA, 1, 2), Span(FB, 2, 3)>> }

\* Gold.files()
GoldFiles(gold) == {gold[i].file : i \in 1..Len(gold)}

\* Gold.line_spans_init(): the stored line ranges by file
GoldLineSpansInit(gold) ==
    [f \in GoldFiles(gold) |->
        MergeLineIntervals(
            [k \in 1..Len(SelectSeq(gold, LAMBDA g : g.file = f)) |->
                <<SelectSeq(gold, LAMBDA g : g.file = f)[k].start_line,
                  SelectSeq(gold, LAMBDA g : g.file = f)[k].end_line>>])]

\* Gold.byte_spans(repo_dir): the stored line ranges as byte spans
GoldByteSpans(gold) == StepToByteSpans(Step(<<>>, gold, EmptyDict))

(***************************************************************************)
(* evaluate.py: the final metrics of evaluate_instance                    *)
(***************************************************************************)
\* final_symbols: from the declared names when there are any, else from spans
FinalSymbols(final_step, final_spans) ==
    IF DOMAIN final_step.symbols # {}
    THEN ExtractDefSetFromSymbolNames(final_step.symbols)
    ELSE ExtractDefSetInSpans(final_spans)

\* results["final"] of evaluate_instance
FinalMetrics(final_step, gold) ==
    LET gold_files == GoldFiles(gold)
        gold_spans == GoldByteSpans(gold)
        gold_symbols == ExtractDefSetInSpans(gold_spans)
        gold_lines == GoldLineSpansInit(gold)
        final_files == SeqToSet(final_step.files)
        final_spans == StepSpans(final_step)
        final_lines == StepLines(final_step)
        final_symbols == FinalSymbols(final_step, final_spans)
    IN ComputeGranularityMetrics(final_files, final_symbols, final_spans,
                                 gold_files, gold_symbols, gold_spans,
                                 final_lines, gold_lines)

(***************************************************************************)
(* evaluate.py: EditLoc.  A unified diff is the sequence of its changed    *)
(* lines [file, line, kind]: kind "-" with the line number in the old      *)
(* file, kind "+" with the line number in the new file.                    *)
(***************************************************************************)
DiffLine(f, n, kind) == [file |-> f, line |-> n, kind |-> kind]

\* parsers.diff.parse_diff_lines(patch, deletions_only): the changed line
\* numbers by file, as merged intervals
ParseDiffLines(patch, deletions_only) ==
    LET kept == SelectSeq(patch, LAMBDA l : l.kind = "-" \/ ~deletions_only)
        files == {kept[i].file : i \in 1..Len(kept)}
    IN [f \in files |->
           DiffMergeLineIntervals(
               [k \in 1..Len(SelectSeq(kept, LAMBDA l : l.file = f)) |->
                   <<SelectSeq(kept, LAMBDA l : l.file = f)[k].line,
                     SelectSeq(kept, LAMBDA l : l.file = f)[k].line>>])]

\* any(gold_start <= line_num <= gold_end for gold_start, gold_end in gold_ranges)
InGold(line_num, gold_ranges) ==
    \E i \in 1..Len(gold_ranges) :
        gold_ranges[i][1] <= line_num /\ line_num <= gold_ranges[i][2]

\* mutant of the EditLoc ratios: recall over the gold size
EditLocRatiosRecallOverGold(hit_count, pred_line_count, gold_line_count) ==
    [recall |-> IF gold_line_count > 0 THEN Frac(hit_count, gold_line_count) ELSE FZero,
     precision |-> IF pred_line_count > 0 THEN Frac(hit_count, pred_line_count) ELSE FZero]

\* recall = precision = hit_count / pred_line_count if pred_line_count > 0 else 0.0
EditLocRatios(hit_count, pred_line_count, gold_line_count) ==
    [recall |-> IF pred_line_count > 0 THEN Frac(hit_count, pred_line_count) ELSE FZero,
     precision |-> IF pred_line_count > 0 THEN Frac(hit_count, pred_line_count) ELSE FZero]

\* the counting loops over pred_line_edits and the editloc dict
EditLocCount(pred_line_edits, gold_line_spans) ==
    LET pred_line_count ==
            SumFun([f \in DOMAIN pred_line_edits |->
                       SumSeq([k \in 1..Len(pred_line_edits[f]) |->
                           Cardinality(pred_line_edits[f][k][1]..pred_line_edits[f][k][2])])],
                   DOMAIN pred_line_edits)
        hit_count ==
            SumFun([f \in DOMAIN pred_line_edits |->
                       SumSeq([k \in 1..Len(pred_line_edits[f]) |->
                           Cardinality({n \in pred_line_edits[f][k][1]..pred_line_edits[f][k][2] :
                                           InGold(n, Get(gold_line_spans, f))})])],
                   DOMAIN pred_line_edits)
        gold_line_count ==
            SumFun([f \in DOMAIN gold_line_spans |->
                       SumSeq([k \in 1..Len(gold_line_spans[f]) |->
                           gold_line_spans[f][k][2] - gold_line_spans[f][k][1] + 1])],
                   DOMAIN gold_line_spans)
        ratios == EditLocRatios(hit_count, pred_line_count, gold_line_count)
    IN [recall |-> ratios.recall, precision |-> ratios.precision,
        intersection |-> hit_count, gold_size |-> gold_line_count,
        pred_size |-> pred_line_count]

\* the patch EditLoc reads: pred_data["model_patch"], else the gold patch
EditLocPatch(model_patch, gold_patch) ==
    IF model_patch # <<>> THEN model_patch ELSE gold_patch

\* results["editloc"] of evaluate_instance; NoValue when there is no patch
EditLoc(model_patch, gold, gold_patch) ==
    LET patch == EditLocPatch(model_patch, gold_patch)
    IN IF patch # <<>>
       THEN EditLocCount(ParseDiffLines(patch, TRUE), GoldLineSpansInit(gold))
       ELSE NoValue

(***************************************************************************)
(* evaluate.py: _filter_step_to_repo                                       *)
(***************************************************************************)
\* the tokens of the model's paths in the order Python gives their strings
TokOrder ==
    <<" ", "'", ".", "/", "\\", "a.py", "b.py", "etc", "home", "out", "passwd", "src",
      "testbed", "x.py">>

TokRank(t) == CHOOSE i \in 1..Len(TokOrder) : TokOrder[i] = t

RECURSIVE PathLess(_, _)
\* a < b for two strings
PathLess(a, b) ==
    IF b = <<>> THEN FALSE
    ELSE IF a = <<>> THEN TRUE
    ELSE IF Head(a) = Head(b) THEN PathLess(Tail(a), Tail(b))
    ELSE TokRank(Head(a)) < TokRank(Head(b))

RECURSIVE SortedPaths(_)
\* sorted(S) for a set of strings
SortedPaths(S) ==
    IF S = {} THEN <<>>
    ELSE LET least == CHOOSE a \in S : \A b \in S \ {a} : PathLess(a, b)
         IN <<least>> \o SortedPaths(S \ {least})

\* step.files = sorted(set(rel for f in step.files if rel))
FilterFiles(files) ==
    SortedPaths({ResolveRepoRelpath(files[i]) : i \in 1..Len(files)} \ {EmptyStr})

RECURSIVE FilterSpans(_)
\* the spans whose file resolves, with the file replaced by the resolved path
FilterSpans(spans) ==
    IF spans = <<>> THEN <<>>
    ELSE LET s == Head(spans)
             rel == IF s.file # EmptyStr THEN ResolveRepoRelpath(s.file) ELSE EmptyStr
         IN IF rel # EmptyStr
            THEN <<Span(rel, s.start_line, s.end_line)>> \o FilterSpans(Tail(spans))
            ELSE FilterSpans(Tail(spans))

RECURSIVE FilterSymbols(_, _)
\* the loop over step.symbols.items(): a list of <<file, names>> pairs in
\* the order of the dict; the lists of keys that resolve to one path are joined
FilterSymbols(items, syms) ==
    IF items = <<>> THEN syms
    ELSE LET f == Head(items)[1]
             names == Head(items)[2]
             rel == ResolveRepoRelpath(f)
         IN IF names = <<>> \/ rel = EmptyStr
            THEN FilterSymbols(Tail(items), syms)
            ELSE FilterSymbols(Tail(items),
                     [g \in DOMAIN syms \cup {rel} |->
                         IF g = rel THEN Get(syms, rel) \o names ELSE syms[g]])

\* the (file, names) items of a symbols dict that is already filtered; the
\* order of the items only decides the order inside a joined name list, and
\* the readers of step.symbols look the names up one by one
SymbolItems(symbols) ==
    LET keys == SortedPaths(DOMAIN symbols)
    IN [i \in 1..Len(keys) |-> <<keys[i], symbols[keys[i]]>>]

\* _filter_step_to_repo(step, repo_dir) on a parsed step
FilterStepToRepo(step) ==
    Step(FilterFiles(step.files), FilterSpans(step.spans),
         FilterSymbols(step.symbols, EmptyDict))

\* _filter_step_to_repo on a step that was filtered before
FilterStepToRepoAgain(step) ==
    Step(FilterFiles(step.files), FilterSpans(step.spans),
         FilterSymbols(SymbolItems(step.symbols), EmptyDict))

(***************************************************************************)
(* parsers/trajectory.py: parse_trajectory.  A spans dict is the list of   *)
(* its <<file, list of span dicts>> items; a span dict is a record that    *)
(* has the keys "start" and "end" or lacks one of them.                    *)
(***************************************************************************)
\* span['start'] or span['end'] raises KeyError
SpansRaise(spans_dict) ==
    \E i \in 1..Len(spans_dict) : \E k \in 1..Len(spans_dict[i][2]) :
        ~({"start", "end"} \subseteq DOMAIN spans_dict[i][2][k])

RECURSIVE ConvertSpans(_)
\* the nested loops that turn a spans dict into the list of spans
ConvertSpans(spans_dict) ==
    IF spans_dict = <<>> THEN <<>>
    ELSE LET file_path == Head(spans_dict)[1]
             file_spans == Head(spans_dict)[2]
         IN [k \in 1..Len(file_spans) |->
                Span(file_path, file_spans[k].start, file_spans[k].end)]
            \o ConvertSpans(Tail(spans_dict))

\* parse_trajectory raises instead of returning
ParseTrajectoryRaises(data) ==
    \/ \E t \in 1..Len(data.traj_data.pred_steps) :
           SpansRaise(data.traj_data.pred_steps[t].spans)
    \/ SpansRaise(data.traj_data.pred_spans)

\* parse_trajectory(data): the steps, the final step, and whether the
\* fallback made the final step the only trajectory step (one object)
ParseTrajectory(data) ==
    LET traj_data == data.traj_data
        traj_steps == [t \in 1..Len(traj_data.pred_steps) |->
                          Step(traj_data.pred_steps[t].files,
                               ConvertSpans(traj_data.pred_steps[t].spans),
                               traj_data.pred_steps[t].symbols)]
        final_step == Step(traj_data.pred_files, ConvertSpans(traj_data.pred_spans),
                           traj_data.pred_symbols)
    IN IF traj_steps = <<>>
       THEN [traj_steps |-> <<final_step>>, final_step |-> final_step, fallback |-> TRUE]
       ELSE [traj_steps |-> traj_steps, final_step |-> final_step, fallback |-> FALSE]

(***************************************************************************)
(* evaluate.py: evaluate_instance and aggregate_results                    *)
(***************************************************************************)
\* the gold contexts GoldLoader indexes, by instance id: the gold spans and
\* the ground-truth patch
GoldStore ==
    [empty |-> [spans |-> <<>>, patch |-> <<>>],
     one |-> [spans |-> <<Span(FA, 1, 2)>>, patch |-> <<>>],
     two |-> [spans |-> <<Span(FA, 1, 2), Span(FB, 2, 3)>>,
              patch |-> <<DiffLine(FB, 2, "-"), DiffLine(FB, 3, "-")>>],
     badrepo |-> [spans |-> <<Span(FA, 1, 2)>>, patch |-> <<>>]]

\* core.checkout(repo_url, commit, cache_dir) returns a directory
CheckoutOk(instance_id) == instance_id # "badrepo"

\* pred_data.get("instance_id") or pred_data.get("original_inst_id")
InstanceId(pred_data) ==
    IF pred_data.instance_id # "" THEN pred_data.instance_id
    ELSE pred_data.original_inst_id

\* the two filter lines of evaluate_instance.  After the fallback of
\* parse_trajectory the only trajectory step and the final step are one
\* object, which is filtered in place twice.
FilterParsed(parsed) ==
    IF parsed.fallback
    THEN LET twice == FilterStepToRepoAgain(FilterStepToRepo(parsed.final_step))
         IN [traj_steps |-> <<twice>>, final_step |-> twice]
    ELSE [traj_steps |-> [t \in 1..Len(parsed.traj_steps) |->
                             FilterStepToRepo(parsed.traj_steps[t])],
          final_step |-> FilterStepToRepo(parsed.final_step)]

\* not final_step.files and not final_step.spans
NoContext(final_step) == final_step.files = <<>> /\ final_step.spans = <<>>

\* results["trajectory"] of evaluate_instance
TrajectoryMetrics(traj_steps, gold) ==
    ComputeTrajectoryMetrics(traj_steps, GoldFiles(gold),
        ExtractDefSetInSpans(GoldByteSpans(gold)),
        GoldByteSpans(gold), GoldLineSpansInit(gold))

\* the result row of evaluate_instance after a checkout that succeeded,
\* from the filtered steps on
EvaluateInstance(instance_id, gold, pred_data, filtered) ==
    IF NoContext(filtered.final_step)
    THEN [instance_id |-> instance_id, error |-> "no_context_extracted"]
    ELSE IF EditLocPatch(pred_data.model_patch, gold.patch) # <<>>
    THEN [instance_id |-> instance_id, num_steps |-> Len(filtered.traj_steps),
          final |-> FinalMetrics(filtered.final_step, gold.spans),
          trajectory |-> TrajectoryMetrics(filtered.traj_steps, gold.spans),
          editloc |-> EditLoc(pred_data.model_patch, gold.spans, gold.patch)]
    ELSE [instance_id |-> instance_id, num_steps |-> Len(filtered.traj_steps),
          final |-> FinalMetrics(filtered.final_step, gold.spans),
          trajectory |-> TrajectoryMetrics(filtered.traj_steps, gold.spans)]

\* valid = [r for r in results if "error" not in r]
ValidRows(results) == SelectSeq(results, LAMBDA r : "error" \notin DOMAIN r)

\* mutant of the final aggregation: the mean of the per-instance values
AggFinalMacro(valid, gran) ==
    [coverage |-> FDivInt(FSum([i \in 1..Len(valid) |-> valid[i].final[gran].coverage]),
                          Len(valid)),
     precision |-> FDivInt(FSum([i \in 1..Len(valid) |-> valid[i].final[gran].precision]),
                           Len(valid))]

\* agg["final_<gran>"]: coverage_precision of the summed sizes
AggFinal(valid, gran) ==
    LET intersection == SumSeq([i \in 1..Len(valid) |-> valid[i].final[gran].intersection])
        gold_size == SumSeq([i \in 1..Len(valid) |-> valid[i].final[gran].gold_size])
        pred_size == SumSeq([i \in 1..Len(valid) |-> valid[i].final[gran].pred_size])
        cp == CoveragePrecision(pred_size, gold_size, intersection)
    IN [coverage |-> cp.cov, precision |-> cp.prec]

\* agg["traj_auc_<gran>"] and agg["traj_redundancy_<gran>"]: sum(vals) / len(vals)
AggTraj(valid, key, gran) ==
    FDivInt(FSum([i \in 1..Len(valid) |-> valid[i].trajectory[key][gran]]), Len(valid))

\* agg["editloc"]: rows without "editloc" count as zeros
AggEditLoc(valid) ==
    LET has == [i \in 1..Len(valid) |-> "editloc" \in DOMAIN valid[i]]
        intersection == SumSeq([i \in 1..Len(valid) |->
                                   IF has[i] THEN valid[i].editloc.intersection ELSE 0])
        gold_size == SumSeq([i \in 1..Len(valid) |->
                                IF has[i] THEN valid[i].editloc.gold_size ELSE 0])
        pred_size == SumSeq([i \in 1..Len(valid) |->
                                IF has[i] THEN valid[i].editloc.pred_size ELSE 0])
        cp == CoveragePrecision(pred_size, gold_size, intersection)
    IN [recall |-> cp.cov, precision |-> cp.prec]

\* aggregate_results(results); the keys final_<gran>, traj_auc_<gran> and
\* traj_redundancy_<gran> are the fields final, traj_auc and traj_redundancy
AggregateResults(results) ==
    LET valid == ValidRows(results)
        base == [num_valid |-> Len(valid), num_total |-> Len(results),
                 final |-> [g \in Grans |-> AggFinal(valid, g)],
                 traj_auc |-> [g \in Grans |-> AggTraj(valid, "auc_coverage", g)],
                 traj_redundancy |-> [g \in Grans |-> AggTraj(valid, "redundancy", g)]]
    IN IF valid = <<>>
       THEN [num_valid |-> 0, num_total |-> Len(results)]
       ELSE IF \E i \in 1..Len(valid) : "editloc" \in DOMAIN valid[i]
       THEN [num_valid |-> base.num_valid, num_total |-> base.num_total,
             final |-> base.final, traj_auc |-> base.traj_auc,
             traj_redundancy |-> base.traj_redundancy, editloc |-> AggEditLoc(valid)]
       ELSE base

\* the names of the typed errors of a result row
ErrorNames == {"missing_gold", "checkout_failed", "no_context_extracted"}

\* error_counts[err] = error_counts.get(err, 0) + 1 over the rows with an error
ErrorCounts(results) ==
    LET errs == {results[i].error : i \in {k \in 1..Len(results) :
                                              "error" \in DOMAIN results[k]}}
    IN [e \in errs |->
           Cardinality({i \in 1..Len(results) :
                          "error" \in DOMAIN results[i] /\ results[i].error = e})]

(***************************************************************************)
(* Steps as compute_trajectory_metrics and the final metrics receive them *)
(***************************************************************************)
SpanListPool ==
    { <<>>,
      <<Span(FA, 1, 2)>>, <<Span(FA, 2, 3)>>, <<Span(FB, 1, 1)>>,
      <<Span(FA, 3, 1)>>,
      <<Span(FA, 1, 1), Span(FA, 2, 3)>>,
      <<Span(FA, 1, 2), Span(FA, 2, 3)>>,
      <<Span(FA, 1, 1), Span(FA, 3, 3)>>,
      <<Span(FA, 1, 2), Span(FB, 2, 3)>> }

FilesSymbolsPool ==
    { <<<<>>, EmptyDict>>,
      <<<<FA>>, EmptyDict>>,
      <<<<FB, FA>>, EmptyDict>>,
      <<<<FA>>, [f \in {FA} |-> << <<"f">> >>]>> }

StepPool ==
    { Step(fs[1], spans, fs[2]) :
        fs \in FilesSymbolsPool,
        spans \in { <<>>, <<Span(FA, 1, 2)>>, <<Span(FA, 1, 2), Span(FB, 2, 3)>> } }
    \cup { Step(<<>>, spans, EmptyDict) : spans \in SpanListPool }

Trajectories == UNION { [1..n -> StepPool] : n \in 0..MaxSteps }

IdleResolve ==
    cand = NoValue /\ resolved = NoValue /\ rpc = "idle" /\ wfiles = {}
IdleMetrics ==
    mgold = NoValue /\ msteps = NoValue /\ mfinal = NoValue /\ mres = NoValue
    /\ mpc = "idle"
IdleCovPrec == cpin = NoValue /\ cpout = NoValue /\ cppc = "idle"
IdleEditLoc == ein = NoValue /\ eres = NoValue /\ epc = "idle"
IdleDefs == tin = NoValue /\ tout = NoValue /\ tpc = "idle"
IdleAdapter == ain = NoValue /\ aout = NoValue /\ apc = "idle"
IdleIntervals == iin = NoValue /\ iout = NoValue /\ ipc = "idle"
IdleRun ==
    gargs = NoValue /\ gfile = NoValue /\ gtasks = NoValue /\ gresults = NoValue
    /\ gdone = NoValue /\ gerrors = NoValue /\ gpc = "idle" /\ grc = NoValue
IdleDriver ==
    dpreds = NoValue /\ dresults = NoValue /\ dlast = NoValue /\ dagg = NoValue
    /\ derrors = NoValue /\ dpc = "idle"

(***************************************************************************)
(* The resolver run                                                        *)
(***************************************************************************)
InitResolve ==
    /\ cand \in Candidates
    /\ wfiles = {}
    /\ resolved = NoValue
    /\ rpc = "call"
    /\ IdleMetrics /\ IdleCovPrec /\ IdleEditLoc /\ IdleDriver /\ IdleDefs /\ IdleAdapter /\ IdleIntervals /\ IdleRun

\* one call of _resolve_repo_relpath
Resolve ==
    /\ rpc = "call"
    /\ resolved' = ResolveRepoRelpath(cand)
    /\ rpc' = "done"
    /\ UNCHANGED <<cand, wfiles, mvars, cvars, evars, dvars, tvars, avars, ivars, gvars>>

NextResolve == Resolve

SpecResolve == InitResolve /\ [][NextResolve]_vars

(***************************************************************************)
(* coverage_precision on its own                                           *)
(***************************************************************************)
InitCovPrec ==
    /\ cpin \in (0..MaxSize) \X (0..MaxSize) \X (0..MaxSize)
    /\ cpout = NoValue
    /\ cppc = "call"
    /\ IdleResolve /\ IdleMetrics /\ IdleEditLoc /\ IdleDriver /\ IdleDefs /\ IdleAdapter /\ IdleIntervals /\ IdleRun

\* one call of coverage_precision
CallCoveragePrecision ==
    /\ cppc = "call"
    /\ cpout' = CoveragePrecision(cpin[1], cpin[2], cpin[3])
    /\ cppc' = "done"
    /\ UNCHANGED <<cpin, rvars, mvars, evars, dvars, tvars, avars, ivars, gvars>>

NextCovPrec == CallCoveragePrecision

SpecCovPrec == InitCovPrec /\ [][NextCovPrec]_vars

(***************************************************************************)
(* compute_trajectory_metrics on a trajectory                              *)
(***************************************************************************)
InitTraj ==
    /\ mgold \in GoldPool
    /\ msteps \in Trajectories
    /\ mfinal = NoValue
    /\ mres = NoValue
    /\ mpc = "call"
    /\ IdleResolve /\ IdleCovPrec /\ IdleEditLoc /\ IdleDriver /\ IdleDefs /\ IdleAdapter /\ IdleIntervals /\ IdleRun

\* one call of compute_trajectory_metrics
CallTrajectoryMetrics ==
    /\ mpc = "call"
    /\ mres' = TrajectoryMetrics(msteps, mgold)
    /\ mpc' = "done"
    /\ UNCHANGED <<mgold, msteps, mfinal, rvars, cvars, evars, dvars, tvars, avars, ivars, gvars>>

NextTraj == CallTrajectoryMetrics

SpecTraj == InitTraj /\ [][NextTraj]_vars

(***************************************************************************)
(* The final metrics on a filtered final step                              *)
(***************************************************************************)
InitFinal ==
    /\ mgold \in GoldPool
    /\ mfinal \in StepPool
    /\ msteps = NoValue
    /\ mres = NoValue
    /\ mpc = "final"
    /\ IdleResolve /\ IdleCovPrec /\ IdleEditLoc /\ IdleDriver /\ IdleDefs /\ IdleAdapter /\ IdleIntervals /\ IdleRun

\* the final-metrics part of evaluate_instance
CallFinalMetrics ==
    /\ mpc = "final"
    /\ mres' = FinalMetrics(mfinal, mgold)
    /\ mpc' = "final_done"
    /\ UNCHANGED <<mgold, msteps, mfinal, rvars, cvars, evars, dvars, tvars, avars, ivars, gvars>>

NextFinal == CallFinalMetrics

SpecFinal == InitFinal /\ [][NextFinal]_vars

(***************************************************************************)
(* The EditLoc part of evaluate_instance on a patch                        *)
(***************************************************************************)
\* most changed lines of an enumerated patch
MaxPatchLines == 3

DiffLinePool ==
    { DiffLine(FA, 1, "-"), DiffLine(FA, 2, "-"), DiffLine(FA, 3, "-"),
      DiffLine(FB, 2, "-"), DiffLine(FA, 2, "+") }

\* deletes lines 12-14 / lines 30-31 of FA
PatchDeletes12To14 == <<DiffLine(FA, 12, "-"), DiffLine(FA, 13, "-"), DiffLine(FA, 14, "-")>>
PatchDeletes30To31 == <<DiffLine(FA, 30, "-"), DiffLine(FA, 31, "-")>>
GoldRange10To20 == <<Span(FA, 10, 20)>>

PatchPool ==
    {PatchDeletes12To14, PatchDeletes30To31}
    \cup UNION { [1..n -> DiffLinePool] : n \in 0..MaxPatchLines }

GoldPatchPool == { <<>>, <<DiffLine(FB, 2, "-"), DiffLine(FB, 3, "-")>> }

InitEditLoc ==
    /\ ein \in [model_patch : PatchPool, gold : GoldPool \cup {GoldRange10To20},
                gold_patch : GoldPatchPool]
    /\ eres = NoValue
    /\ epc = "call"
    /\ IdleResolve /\ IdleMetrics /\ IdleCovPrec /\ IdleDriver /\ IdleDefs /\ IdleAdapter /\ IdleIntervals /\ IdleRun

\* the EditLoc block when there is a patch to read
CallEditLoc ==
    /\ epc = "call"
    /\ EditLocPatch(ein.model_patch, ein.gold_patch) # <<>>
    /\ eres' = EditLoc(ein.model_patch, ein.gold, ein.gold_patch)
    /\ epc' = "done"
    /\ UNCHANGED <<ein, rvars, mvars, cvars, dvars, tvars, avars, ivars, gvars>>

\* no model patch and no gold patch: the row gets no "editloc" key
SkipEditLoc ==
    /\ epc = "call"
    /\ EditLocPatch(ein.model_patch, ein.gold_patch) = <<>>
    /\ epc' = "none"
    /\ UNCHANGED <<ein, eres, rvars, mvars, cvars, dvars, tvars, avars, ivars, gvars>>

NextEditLoc == CallEditLoc \/ SkipEditLoc

SpecEditLoc == InitEditLoc /\ [][NextEditLoc]_vars

(***************************************************************************)
(* main: the batch loop over the predictions                               *)
(***************************************************************************)
\* most predictions of an enumerated batch
MaxPreds == 3

RawSpan(s, e) == [start |-> s, end |-> e]
RawStep(files, spans_dict, symbols) ==
    [files |-> files, spans |-> spans_dict, symbols |-> symbols]
TrajData(pred_steps, pred_files, pred_spans, pred_symbols) ==
    [pred_steps |-> pred_steps, pred_files |-> pred_files,
     pred_spans |-> pred_spans, pred_symbols |-> pred_symbols]

\* "' b.py", "/testbed/src/a.py", "./src/a.py"
PathQuotedB == <<"'", " ", "b.py">>
PathTestbedA == <<"/", "testbed", "/", "src", "/", "a.py">>
PathDotSlashA == <<".", "/", "src", "/", "a.py">>
PathDotSlashB == <<".", "/", "b.py">>

\* nothing extracted
TrajNone == TrajData(<<>>, <<>>, <<>>, <<>>)
\* no steps, a final context only
TrajFinalOnly == TrajData(<<>>, <<FA>>, << <<FA, <<RawSpan(1, 2)>> >> >>, <<>>)
\* a step that names a file with a quote and a space in front
TrajQuoted ==
    TrajData(<<RawStep(<<PathQuotedB>>, << <<PathQuotedB, <<RawSpan(1, 1)>> >> >>, <<>>)>>,
             <<FB>>, << <<FB, <<RawSpan(2, 3)>> >> >>, <<>>)
\* two steps with absolute, missing and symlinked paths; the final context
\* is the gold context of instance "two"
TrajTwoSteps ==
    TrajData(<<RawStep(<<PathTestbedA, <<"x.py">>>>, << <<FA, <<RawSpan(1, 2)>> >> >>, <<>>),
               RawStep(<<FB>>, << <<FA, <<RawSpan(2, 3)>> >>,
                                  <<<<"out">>, <<RawSpan(1, 1)>> >> >>, <<>>)>>,
             <<FA, FB>>,
             << <<FA, <<RawSpan(1, 2)>> >>, <<FB, <<RawSpan(2, 3)>> >> >>, <<>>)
\* a span dict without "end"
TrajMalformed == TrajData(<<>>, <<FA>>, << <<FA, <<[start |-> 1]>> >> >>, <<>>)
\* declared symbols under two spellings of one file
TrajSymbols ==
    TrajData(<<RawStep(<<FA>>, <<>>, << <<FA, << <<"f">> >> >>,
                                        <<PathDotSlashA, << <<"g">> >> >> >>)>>,
             <<FA>>, <<>>, << <<PathDotSlashA, << <<"g">> >> >> >>)
\* only paths that leave the repository
TrajOutside ==
    TrajData(<<RawStep(<< <<"out">>, <<"/", "etc", "/", "passwd">> >>, <<>>, <<>>)>>,
             << <<"out">> >>, <<>>, <<>>)
\* a final span with start > end
TrajInverted == TrajData(<<>>, <<>>, << <<FA, <<RawSpan(3, 1)>> >> >>, <<>>)

\* three steps that each read lines 1-50 of src/a.py; the final context is empty
TrajThreeReads ==
    TrajData(<<RawStep(<<FA>>, << <<FA, <<RawSpan(1, 50)>> >> >>, <<>>),
               RawStep(<<FA>>, << <<FA, <<RawSpan(1, 50)>> >> >>, <<>>),
               RawStep(<<FA>>, << <<FA, <<RawSpan(1, 50)>> >> >>, <<>>)>>,
             <<>>, <<>>, <<>>)

TrajPatchPool ==
    { <<TrajNone, <<>>>>, <<TrajFinalOnly, <<>>>>, <<TrajQuoted, <<>>>>, <<TrajThreeReads, <<>>>>,
      <<TrajTwoSteps, <<DiffLine(FA, 2, "-"), DiffLine(FA, 3, "-")>>>>,
      <<TrajMalformed, <<>>>>, <<TrajSymbols, <<>>>>, <<TrajOutside, <<>>>>,
      <<TrajInverted, <<>>>> }

\* pred_data with its instance_id, original_inst_id, traj_data and model_patch
Pred(instance_id, original_inst_id, tp) ==
    [instance_id |-> instance_id, original_inst_id |-> original_inst_id,
     traj_data |-> tp[1], model_patch |-> tp[2]]

PredPool ==
    { Pred("one", "", tp) : tp \in TrajPatchPool \ {<<TrajNone, <<>>>>} }
    \cup { Pred("", "two", tp) : tp \in { tq \in TrajPatchPool :
                                            tq[1] \in {TrajNone, TrajFinalOnly, TrajTwoSteps} } }
    \cup { Pred("empty", "", tp) : tp \in { tq \in TrajPatchPool :
                                             tq[1] \in {TrajFinalOnly, TrajInverted} } }
    \cup { Pred(id[1], id[2], <<TrajFinalOnly, <<>>>>) :
              id \in { <<"badrepo", "">>, <<"nogold", "">>, <<"", "">> } }

NoFiltered ==
    [filtered |-> FALSE, traj_steps |-> <<>>, final_step |-> Step(<<>>, <<>>, EmptyDict)]

InitDriver ==
    /\ dpreds = <<>>
    /\ dresults = <<>>
    /\ dlast = NoFiltered
    /\ dagg = [num_valid |-> 0, num_total |-> 0]
    /\ derrors = EmptyDict
    /\ dpc = "loop"
    /\ IdleResolve /\ IdleMetrics /\ IdleCovPrec /\ IdleEditLoc /\ IdleDefs /\ IdleAdapter /\ IdleIntervals /\ IdleRun

\* if not instance_id: continue
SkipNoId ==
    /\ dpc = "loop" /\ Len(dpreds) < MaxPreds
    /\ \E pred_data \in PredPool :
          /\ InstanceId(pred_data) = ""
          /\ dpreds' = Append(dpreds, pred_data)
    /\ UNCHANGED <<dresults, dlast, dagg, derrors, dpc, rvars, mvars, cvars, evars, tvars, avars, ivars, gvars>>

\* gold_loader.get(instance_id) finds nothing
MissingGold ==
    /\ dpc = "loop" /\ Len(dpreds) < MaxPreds
    /\ \E pred_data \in PredPool :
          /\ InstanceId(pred_data) # ""
          /\ InstanceId(pred_data) \notin DOMAIN GoldStore
          /\ dpreds' = Append(dpreds, pred_data)
          /\ dresults' = Append(dresults, [instance_id |-> InstanceId(pred_data),
                                           error |-> "missing_gold"])
    /\ UNCHANGED <<dlast, dagg, derrors, dpc, rvars, mvars, cvars, evars, tvars, avars, ivars, gvars>>

\* evaluate_instance returns the checkout_failed row before it parses
CheckoutFailed ==
    /\ dpc = "loop" /\ Len(dpreds) < MaxPreds
    /\ \E pred_data \in PredPool : \E instance_id \in {InstanceId(pred_data)} :
          /\ instance_id \in DOMAIN GoldStore
          /\ ~CheckoutOk(instance_id)
          /\ dpreds' = Append(dpreds, pred_data)
          /\ dresults' = Append(dresults, [instance_id |-> instance_id,
                                           error |-> "checkout_failed"])
    /\ UNCHANGED <<dlast, dagg, derrors, dpc, rvars, mvars, cvars, evars, tvars, avars, ivars, gvars>>

\* evaluate_instance parses, filters and returns a row, which is appended
EvaluateReturns ==
    /\ dpc = "loop" /\ Len(dpreds) < MaxPreds
    /\ \E pred_data \in PredPool : \E instance_id \in {InstanceId(pred_data)} :
          /\ instance_id \in DOMAIN GoldStore
          /\ CheckoutOk(instance_id)
          /\ ~ParseTrajectoryRaises(pred_data)
          /\ \E filtered \in {FilterParsed(ParseTrajectory(pred_data))} :
                /\ dpreds' = Append(dpreds, pred_data)
                /\ dresults' = Append(dresults,
                       EvaluateInstance(instance_id, GoldStore[instance_id],
                                        pred_data, filtered))
                /\ dlast' = [filtered |-> TRUE, traj_steps |-> filtered.traj_steps,
                             final_step |-> filtered.final_step]
    /\ UNCHANGED <<dagg, derrors, dpc, rvars, mvars, cvars, evars, tvars, avars, ivars, gvars>>

\* parse_trajectory raises KeyError inside evaluate_instance; main has no
\* handler, so the run ends with the traceback
EvaluateRaises ==
    /\ dpc = "loop" /\ Len(dpreds) < MaxPreds
    /\ \E pred_data \in PredPool :
          /\ InstanceId(pred_data) \in DOMAIN GoldStore
          /\ CheckoutOk(InstanceId(pred_data))
          /\ ParseTrajectoryRaises(pred_data)
          /\ dpreds' = Append(dpreds, pred_data)
    /\ dpc' = "crashed"
    /\ UNCHANGED <<dresults, dlast, dagg, derrors, rvars, mvars, cvars, evars, tvars, avars, ivars, gvars>>

\* pred_list is exhausted: aggregate_results and the error histogram
Finish ==
    /\ dpc = "loop"
    /\ dagg' = AggregateResults(dresults)
    /\ derrors' = ErrorCounts(dresults)
    /\ dpc' = "done"
    /\ UNCHANGED <<dpreds, dresults, dlast, rvars, mvars, cvars, evars, tvars, avars, ivars, gvars>>

NextDriver ==
    SkipNoId \/ MissingGold \/ CheckoutFailed \/ EvaluateReturns \/ EvaluateRaises \/ Finish

SpecDriver == InitDriver /\ [][NextDriver]_vars

(***************************************************************************)
(* Properties                                                              *)
(***************************************************************************)
\* the whole-segment suffixes of the normalised candidate
SuffixesOf(path) ==
    LET parts == Parts(NormalizePath(path))
    IN [i \in 1..Len(parts) |-> SuffixCand(parts, i)]

\* C2: resolve returns the empty string or the longest whole-segment suffix
\* of the normalised candidate that names an existing regular file whose
\* real path lies inside repo_dir, and the empty string exactly when no
\* suffix does
C2_ResolveReturnsExistingSuffix ==
    rpc = "done" =>
        LET sfx == SuffixesOf(cand)
            good == {i \in 1..Len(sfx) : NamesRepoFile(sfx[i])}
        IN IF good = {} THEN resolved = EmptyStr
           ELSE resolved = sfx[CHOOSE i \in good : \A j \in good : i <= j]

\* C3: coverage is inter/gold, and 1.0 for an empty gold; precision is
\* inter/pred, and 1.0 for an empty prediction; (0,0,0) gives (1.0,1.0),
\* (5,0,0) gives (1.0,0.0) and (0,5,0) gives (0.0,1.0)
C3_CoveragePrecision ==
    cppc = "done" =>
        LET pred_size == cpin[1]
            gold_size == cpin[2]
            inter_size == cpin[3]
        IN /\ gold_size > 0 => cpout.cov[1] * gold_size = inter_size * cpout.cov[2]
           /\ gold_size = 0 => cpout.cov = FOne
           /\ pred_size > 0 => cpout.prec[1] * pred_size = inter_size * cpout.prec[2]
           /\ pred_size = 0 => cpout.prec = FOne
           /\ cpin = <<0, 0, 0>> => cpout = [cov |-> FOne, prec |-> FOne]
           /\ cpin = <<5, 0, 0>> => cpout = [cov |-> FOne, prec |-> FZero]
           /\ cpin = <<0, 5, 0>> => cpout = [cov |-> FZero, prec |-> FOne]

C3_Witness ==
    cppc = "done" /\ cpin = <<5, 0, 0>> /\ cpout = [cov |-> FOne, prec |-> FZero]

\* the files, definitions, (file, line) pairs and (file, byte) pairs that a
\* list of steps observes, as sets
FilesOfSteps(steps) == UNION {SeqToSet(steps[t].files) : t \in 1..Len(steps)}

SymbolsOfSteps(steps) ==
    UNION {StepSymbols(steps[t], StepToByteSpans(steps[t])) : t \in 1..Len(steps)}

LinePairsOfSpans(spans) ==
    UNION { {<<spans[i].file, n>> : n \in spans[i].start_line..spans[i].end_line} :
            i \in {k \in 1..Len(spans) : spans[k].start_line > 0 /\ spans[k].end_line > 0} }

LinePairsOfSteps(steps) == UNION {LinePairsOfSpans(steps[t].spans) : t \in 1..Len(steps)}

BytePairsOfSpans(spans) ==
    UNION { LET b == LineToByte(spans[i].file, spans[i].start_line, spans[i].end_line)
            IN {<<spans[i].file, n>> : n \in b[1]..(b[2] - 1)} :
            i \in {k \in 1..Len(spans) :
                     LineToByte(spans[k].file, spans[k].start_line, spans[k].end_line)
                         # NoValue} }

BytePairsOfSteps(steps) == UNION {BytePairsOfSpans(steps[t].spans) : t \in 1..Len(steps)}

\* the coverage of a gold set by a predicted set, 1.0 for an empty gold
CoverageOfSets(P, G) ==
    IF G = {} THEN FOne ELSE Frac(Cardinality(P \cap G), Cardinality(G))

\* the coverage of gold by the union of the given steps, per granularity
UnionCoverage(steps, gold) ==
    [file |-> CoverageOfSets(FilesOfSteps(steps), GoldFiles(gold)),
     symbol |-> CoverageOfSets(SymbolsOfSteps(steps),
                               ExtractDefSetInSpans(GoldByteSpans(gold))),
     span |-> CoverageOfSets(BytePairsOfSteps(steps), BytePairsOfSpans(gold)),
     line |-> CoverageOfSets(LinePairsOfSteps(steps), LinePairsOfSpans(gold))]

\* C4: for T >= 1 the coverage reported at step t is, at each granularity,
\* the coverage of gold by the union of steps 1..t (1.0 when gold is empty
\* there), and auc_coverage is the mean of the T values
C4_StepCoverageIsUnionCoverage ==
    (mpc = "done" /\ Len(msteps) >= 1) =>
        LET T == Len(msteps) IN
        /\ Len(mres.steps) = T
        /\ \A t \in 1..T : \A g \in Grans :
               mres.steps[t][g] = UnionCoverage(SubSeq(msteps, 1, t), mgold)[g]
        /\ \A g \in Grans :
               mres.auc_coverage[g] =
                   FDivInt(FSum([t \in 1..T |->
                               UnionCoverage(SubSeq(msteps, 1, t), mgold)[g]]), T)

RECURSIVE AllLineIntervals(_, _)
\* the line intervals of all steps for one file, one list
AllLineIntervals(steps, f) ==
    IF steps = <<>> THEN <<>>
    ELSE Get(CollectLines(Head(steps).spans, EmptyDict), f)
            \o AllLineIntervals(Tail(steps), f)

RECURSIVE AllByteIntervals(_, _)
\* the byte intervals of all steps for one file, one list
AllByteIntervals(steps, f) ==
    IF steps = <<>> THEN <<>>
    ELSE Get(CollectBytes(Head(steps).spans, EmptyDict), f)
            \o AllByteIntervals(Tail(steps), f)

SpanFilesOfSteps(steps) ==
    UNION {{steps[t].spans[i].file : i \in 1..Len(steps[t].spans)} : t \in 1..Len(steps)}

\* the size of the union of all steps, per granularity
UnionSize(steps) ==
    [file |-> Cardinality(FilesOfSteps(steps)),
     symbol |-> Cardinality(SymbolsOfSteps(steps)),
     span |-> SumFun([f \in SpanFilesOfSteps(steps) |->
                         Length(AllByteIntervals(steps, f))], SpanFilesOfSteps(steps)),
     line |-> SumFun([f \in SpanFilesOfSteps(steps) |->
                         LineIntervalLength(AllLineIntervals(steps, f))],
                     SpanFilesOfSteps(steps))]

\* the size of one step, per granularity
StepSize(step) == UnionSize(<<step>>)

\* the sum of the per-step sizes, per granularity
SumOfStepSizes(steps) ==
    [g \in Grans |-> SumSeq([t \in 1..Len(steps) |-> StepSize(steps[t])[g]])]

C8_FinalSizesAreCardinalities ==
    mpc = "final_done" =>
        LET PF == SeqToSet(mfinal.files)
            GF == GoldFiles(mgold)
            PL == LinePairsOfSpans(mfinal.spans)
            GL == LinePairsOfSpans(mgold)
        IN /\ mres.file.pred_size = Cardinality(PF)
           /\ mres.file.gold_size = Cardinality(GF)
           /\ mres.file.intersection = Cardinality(PF \cap GF)
           /\ mres.line.pred_size = Cardinality(PL)
           /\ mres.line.gold_size = Cardinality(GL)
           /\ mres.line.intersection = Cardinality(PL \cap GL)
           /\ (PF = GF /\ mfinal.spans = mgold /\ DOMAIN mfinal.symbols = {}) =>
                  \A g \in Grans : mres[g].coverage = FOne /\ mres[g].precision = FOne

\* the lines the patch read by EditLoc deletes, as (file, line) pairs
DeletedLines(patch) ==
    {<<patch[i].file, patch[i].line>> : i \in {k \in 1..Len(patch) : patch[k].kind = "-"}}

\* the deleted lines that lie inside some gold line range of the same file
DeletedLinesInGold(patch, gold) ==
    {d \in DeletedLines(patch) :
        \E i \in 1..Len(gold) :
            gold[i].file = d[1] /\ gold[i].start_line <= d[2] /\ d[2] <= gold[i].end_line}

\* C7: EditLoc counts only the deleted lines of the diff: recall and
\* precision are both (deleted lines inside a gold range of the same file) /
\* (deleted lines), so recall = precision; deleting lines 12-14 with gold
\* range 10-20 gives 1.0 and deleting lines 30-31 gives 0.0
C7_EditLocHitRate ==
    epc = "done" =>
        LET patch == EditLocPatch(ein.model_patch, ein.gold_patch)
            D == DeletedLines(patch)
            H == DeletedLinesInGold(patch, ein.gold)
        IN /\ eres.recall = eres.precision
           /\ eres.pred_size = Cardinality(D)
           /\ eres.intersection = Cardinality(H)
           /\ D # {} => eres.recall = Frac(Cardinality(H), Cardinality(D))
           /\ (ein.gold = GoldRange10To20 /\ ein.model_patch = PatchDeletes12To14)
                  => eres.recall = FOne /\ eres.precision = FOne
           /\ (ein.gold = GoldRange10To20 /\ ein.model_patch = PatchDeletes30To31)
                  => eres.recall = FZero /\ eres.precision = FZero

\* one of three deleted lines lies in the gold range and an added line is ignored
C7_Witness ==
    /\ epc = "done"
    /\ ein.gold = <<Span(FA, 1, 2)>>
    /\ ein.model_patch = <<DiffLine(FA, 2, "-"), DiffLine(FA, 2, "+"), DiffLine(FA, 3, "-")>>
    /\ eres.recall = <<1, 2>>
    /\ eres.precision = <<1, 2>>
    /\ eres.gold_size = 2

\* the paths a step carries: its files, the files of its spans, the keys of
\* its symbols
StepPaths(step) ==
    SeqToSet(step.files) \cup {step.spans[i].file : i \in 1..Len(step.spans)}
        \cup DOMAIN step.symbols

\* C1: after the driver has filtered the steps of an instance, every path in
\* step.files, the file of every span and every key of step.symbols, in
\* every trajectory step and in the final step, is a repo-relative path of
\* an existing file inside the checked-out repository
C1_FilteredPathsExist ==
    dlast.filtered =>
        \A step \in SeqToSet(dlast.traj_steps) \cup {dlast.final_step} :
            \A path \in StepPaths(step) : NamesRepoFile(path)

\* the predictions read so far that carry an instance id, in order
IdPreds == SelectSeq(dpreds, LAMBDA pred_data : InstanceId(pred_data) # "")

\* C5: the result row of an instance whose trajectory has zero steps
\* reports trajectory AUC-coverage 0.0 at every granularity
C5_ZeroStepsAucZero ==
    dpc \in {"loop", "done"} =>
        \A i \in 1..Len(dresults) :
            (IdPreds[i].traj_data.pred_steps = <<>> /\ "error" \notin DOMAIN dresults[i])
                => \A g \in Grans : dresults[i].trajectory.auc_coverage[g] = FZero

\* C10: every prediction with an instance id yields exactly one result row,
\* metrics or a typed error; no failure while evaluating an instance halts
\* the batch, and the errors are counted in the error histogram
C10_BatchNeverHalts ==
    /\ dpc # "crashed"
    /\ Len(dresults) = Len(IdPreds)
    /\ \A i \in 1..Len(dresults) :
          /\ dresults[i].instance_id = InstanceId(IdPreds[i])
          /\ "error" \in DOMAIN dresults[i] => dresults[i].error \in ErrorNames
          /\ "error" \notin DOMAIN dresults[i] => "final" \in DOMAIN dresults[i]
    /\ dpc = "done" =>
          \A e \in ErrorNames :
              Cardinality({i \in 1..Len(dresults) :
                             "error" \in DOMAIN dresults[i] /\ dresults[i].error = e})
                  = IF e \in DOMAIN derrors THEN derrors[e] ELSE 0

\* the indices of the rows of `results` that carry no error
ValidIndices == {i \in 1..Len(dresults) : "error" \notin DOMAIN dresults[i]}

RECURSIVE SetSum(_)
\* the sum of the values of a function with a finite domain
SetSum(f) ==
    IF DOMAIN f = {} THEN 0
    ELSE LET x == CHOOSE y \in DOMAIN f : TRUE
         IN f[x] + SetSum([y \in DOMAIN f \ {x} |-> f[y]])

RECURSIVE SetProd(_)
\* the product of the values of a function with a finite domain
SetProd(f) ==
    IF DOMAIN f = {} THEN 1
    ELSE LET x == CHOOSE y \in DOMAIN f : TRUE
         IN f[x] * SetProd([y \in DOMAIN f \ {x} |-> f[y]])

\* m is the arithmetic mean of the fractions v[i], i in DOMAIN v (not empty)
IsMeanOf(m, v) ==
    LET den == SetProd([i \in DOMAIN v |-> v[i][2]])
        scaled == SetSum([i \in DOMAIN v |-> v[i][1] * (den \div v[i][2])])
    IN /\ m[2] > 0
       /\ m[1] * Cardinality(DOMAIN v) * den = scaled * m[2]

\* q is the fraction num / den, for den > 0
IsRatio(q, num, den) == q[2] > 0 /\ q[1] * den = num * q[2]

MaxSpans == 2

\* a file name the worktree does not hold
FMissing == <<"x.py">>

\* the non-empty byte intervals of a file of the worktree
ByteIntervals ==
    { iv \in (0..(FileLines * LineBytes)) \X (0..(FileLines * LineBytes)) : iv[1] < iv[2] }

ByteIntervalLists ==
    UNION { [1..n -> ByteIntervals] : n \in 1..MaxSpans }

\* spans_by_file arguments: intervals of src/a.py, optionally one interval
\* of b.py or of a file that does not exist
SpansByFilePool ==
    { [f \in {FA} |-> ivs] : ivs \in ByteIntervalLists }
    \cup { [f \in {FB} |-> <<iv>>] : iv \in ByteIntervals }
    \cup { [f \in {FA, FB} |-> IF f = FA THEN <<iv>> ELSE <<jv>>] :
             iv \in ByteIntervals,
             jv \in { <<LineBytes, 2 * LineBytes>>, <<0, 1>> } }
    \cup { [f \in {FA, FMissing} |-> <<iv>>] : iv \in ByteIntervals }

InitDefs ==
    /\ tin \in SpansByFilePool
    /\ tout = NoValue
    /\ tpc = "call"
    /\ IdleResolve /\ IdleMetrics /\ IdleCovPrec /\ IdleEditLoc /\ IdleDriver /\ IdleAdapter /\ IdleIntervals /\ IdleRun

CallExtractDefSetInSpans ==
    /\ tpc = "call"
    /\ tout' = ExtractDefSetInSpans(tin)
    /\ tpc' = "done"
    /\ UNCHANGED <<tin, rvars, mvars, cvars, evars, dvars, avars, ivars, gvars>>

NextDefs == CallExtractDefSetInSpans

SpecDefs == InitDefs /\ [][NextDefs]_vars

\* the definition d = (kind, start_byte, end_byte) and the half-open
\* interval iv have a byte in common
SharesByte(d, iv) ==
    \E b \in 0..(FileLines * LineBytes) :
        /\ d[2] <= b /\ b < d[3]
        /\ iv[1] <= b /\ b < iv[2]

\* C11: extract_def_set_in_spans returns, for every existing file of the
\* argument, exactly the definitions that share at least one byte with at
\* least one requested interval: a partly covered definition is included,
\* a definition sharing no byte with any interval is not.
C11_DefsSharingAByte ==
    tpc = "done" =>
        tout = UNION { { <<f, d[1], d[2], d[3]>> :
                           d \in { d \in ExtractDefs(f) :
                                     \E i \in 1..Len(tin[f]) : SharesByte(d, tin[f][i]) } } :
                       f \in { g \in DOMAIN tin : FileExists(g) } }

\* the definitions of kind function_definition of file f
FunctionsOf(f) == { d \in ExtractDefs(f) : d[1] = "function_definition" }

\* every interval of ivs lies inside definition d
AllInside(ivs, d) ==
    \A i \in 1..Len(ivs) : d[2] <= ivs[i][1] /\ ivs[i][2] <= d[3]

\* C12: when every requested interval of the only file lies entirely inside
\* one function, the result holds exactly one definition record, whatever
\* the span length, the number of spans and the other definitions of the file.
C12_SpanInsideFunctionIsOneHit ==
    (tpc = "done" /\ Cardinality(DOMAIN tin) = 1) =>
        \A f \in DOMAIN tin : \A d \in FunctionsOf(f) :
            AllInside(tin[f], d) => Cardinality(tout) = 1

(***************************************************************************)
(* Aggregated EditLoc                                                      *)
(***************************************************************************)
\* the rows without an error that carry an editloc entry
EditLocIndices == {i \in ValidIndices : "editloc" \in DOMAIN dresults[i]}

\* C13: the aggregated EditLoc recall and precision are both (sum of the
\* deleted lines that hit gold) / (sum of the deleted lines) over the valid
\* rows: the denominator of both is the predicted-edit size, so the
\* aggregated recall equals the aggregated precision.
C13_AggEditLocRecallIsPrecision ==
    (dpc = "done" /\ EditLocIndices # {}) =>
        LET hits == SetSum([i \in EditLocIndices |-> dresults[i].editloc.intersection])
            deleted == SetSum([i \in EditLocIndices |-> dresults[i].editloc.pred_size])
        IN /\ dagg.editloc.recall = dagg.editloc.precision
           /\ deleted > 0 => /\ IsRatio(dagg.editloc.recall, hits, deleted)
                             /\ IsRatio(dagg.editloc.precision, hits, deleted)

(***************************************************************************)
(* Scenario: three identical reads and an empty final context             *)
(***************************************************************************)
\* C14: an instance whose trajectory has 3 steps that each read the same
\* 50-line range of one file, and whose final context is empty, is reported
\* with line redundancy 2/3 and final coverage 0.0.
C14_ThreeReadsEmptyFinal ==
    dpc \in {"loop", "done"} =>
        \A i \in 1..Len(dresults) :
            IdPreds[i].traj_data = TrajThreeReads =>
                /\ "error" \notin DOMAIN dresults[i]
                /\ dresults[i].trajectory.redundancy["line"] = <<2, 3>>
                /\ \A g \in Grans : dresults[i].final[g].coverage = FZero

(***************************************************************************)
(* Agent adapters (contextbench/agents).  A raw trajectory is modelled by  *)
(* what the adapters' pattern matching reads from it: the 'File:' and      *)
(* 'Lines:' entries of a context block, the view of an action, the chunks  *)
(* of a shell command.  A dict is the sequence of its <<key, value>>       *)
(* pairs in insertion order.                                               *)
(***************************************************************************)
\* most entries of one context block
MaxEntries == 3
\* most observations (checkpoints, messages, history items) of a raw trajectory
MaxItems == 2

DictKeys(d) == [i \in 1..Len(d) |-> d[i][1]]
DictHas(d, k) == \E i \in 1..Len(d) : d[i][1] = k

\* if k not in d: d[k] = []
DictInit(d, k) == IF DictHas(d, k) THEN d ELSE Append(d, <<k, <<>>>>)

\* d.setdefault(k, []).append(x)
DictAppend(d, k, x) ==
    IF DictHas(d, k)
    THEN [i \in 1..Len(d) |-> IF d[i][1] = k THEN <<k, Append(d[i][2], x)>> ELSE d[i]]
    ELSE Append(d, <<k, <<x>>>>)

\* sorted(d.keys()), sorted(set(files))
SortedSeq(xs) == SortedPaths(SeqToSet(xs))

\* the unified format every adapter returns
Unified(pred_steps, pred_files, pred_spans) ==
    [pred_steps |-> pred_steps, pred_files |-> pred_files, pred_spans |-> pred_spans]

EmptyUnified == Unified(<<>>, <<>>, <<>>)

\* a step of the unified format
UStep(files, spans) == [files |-> files, spans |-> spans]

\* the outcome of a call: the value returned, or an exception
Returned(value) == [raised |-> FALSE, value |-> value]
Raised == [raised |-> TRUE, value |-> <<>>]

\* the entries of a context block: 'File: <path>', 'Lines: <a>-<b>' with
\* two integers, and a 'Lines:' entry whose text is not two integers
\* (dash tells whether the text holds a '-')
FileEntry(path) == [k |-> "File", path |-> path]
LinesEntry(a, b) == [k |-> "Lines", a |-> a, b |-> b]
LinesText(dash) == [k |-> "LinesText", dash |-> dash]

\* str.startswith("/testbed/")
StartsWithTestbed(p) == Len(p) >= 3 /\ SubSeq(p, 1, 3) = <<"/", "testbed", "/">>

(***************************************************************************)
(* agents/sweagent/extract.py                                              *)
(***************************************************************************)
\* _normalize_file_path(file_path)
SweNormalizeFilePath(p) ==
    IF StartsWithTestbed(p) THEN SubSeq(p, 4, Len(p))
    ELSE IF p # <<>> /\ p[1] = "/" THEN Tail(p)
    ELSE p

RECURSIVE ParsePatchContextLoop(_, _, _)
\* the loop of parse_patch_context over the lines of the string; current_file
\* is <<>> while it is None or empty
ParsePatchContextLoop(entries, files, current_file) ==
    IF entries = <<>> THEN Returned(files)
    ELSE LET line == Head(entries) IN
         IF line.k = "File"
         THEN ParsePatchContextLoop(Tail(entries),
                  DictInit(files, SweNormalizeFilePath(Strip(line.path))),
                  SweNormalizeFilePath(Strip(line.path)))
         ELSE IF current_file = <<>>
         THEN ParsePatchContextLoop(Tail(entries), files, current_file)
         ELSE IF line.k = "Lines"
         THEN ParsePatchContextLoop(Tail(entries),
                  DictAppend(files, current_file, RawSpan(line.a, line.b)),
                  current_file)
         ELSE IF line.dash
         THEN Raised
         ELSE ParsePatchContextLoop(Tail(entries), files, current_file)

\* parse_patch_context(patch_context_str)
ParsePatchContext(entries) == ParsePatchContextLoop(entries, <<>>, <<>>)

\* the lines of a .checkpoints.jsonl file
BadJsonLine == [kind |-> "bad_json"]
OtherCheckpoint == [kind |-> "other"]
ViewCheckpoint(file, view_range) == [kind |-> "view", file |-> file, view_range |-> view_range]
PatchContextCheckpoint(entries) == [kind |-> "patch_context", entries |-> entries]

\* the value of view_range when the command names none
NoRange == <<>>

\* extract_view_command(action) for a str_replace_editor view action
ExtractViewCommand(checkpoint) ==
    IF checkpoint.view_range # NoRange
    THEN <<checkpoint.file, checkpoint.view_range[1], checkpoint.view_range[2]>>
    ELSE <<checkpoint.file, 1, -1>>

RECURSIVE SweCheckpointLoop(_, _, _)
\* the loop of extract_trajectory over the lines of a .checkpoints.jsonl
\* file; final_context is <<>> for None, else <<[files, spans]>>
SweCheckpointLoop(lines, steps, final_context) ==
    IF lines = <<>> THEN
        Returned(
            IF final_context # <<>>
            THEN Unified(steps, final_context[1].files, final_context[1].spans)
            ELSE IF steps # <<>>
            THEN Unified(steps, steps[Len(steps)].files, steps[Len(steps)].spans)
            ELSE Unified(steps, <<>>, <<>>))
    ELSE LET checkpoint == Head(lines) IN
         IF checkpoint.kind = "bad_json" THEN Raised
         ELSE IF checkpoint.kind = "patch_context"
         THEN IF checkpoint.entries = <<>>
              THEN SweCheckpointLoop(Tail(lines), steps, final_context)
              ELSE LET parsed == ParsePatchContext(checkpoint.entries) IN
                   IF parsed.raised THEN Raised
                   ELSE SweCheckpointLoop(Tail(lines), steps,
                            <<[files |-> DictKeys(parsed.value), spans |-> parsed.value]>>)
         ELSE IF checkpoint.kind = "view"
         THEN LET view_result == ExtractViewCommand(checkpoint)
                  normalized_path == SweNormalizeFilePath(view_result[1])
              IN IF view_result[2] > 0 /\ view_result[3] > 0
                 THEN SweCheckpointLoop(Tail(lines),
                          Append(steps, UStep(<<normalized_path>>,
                              << <<normalized_path,
                                   <<RawSpan(view_result[2], view_result[3])>> >> >>)),
                          final_context)
                 ELSE SweCheckpointLoop(Tail(lines), steps, final_context)
         ELSE SweCheckpointLoop(Tail(lines), steps, final_context)

\* extract_trajectory(checkpoint_file) for a patch_context.txt file and
\* for a .checkpoints.jsonl file
SweExtractTrajectory(raw) ==
    IF raw.format = "patch_context.txt"
    THEN LET parsed == ParsePatchContext(raw.entries) IN
         IF parsed.raised THEN Raised
         ELSE Returned(Unified(<<>>, SortedSeq(DictKeys(parsed.value)), parsed.value))
    ELSE SweCheckpointLoop(raw.lines, <<>>, <<>>)

(***************************************************************************)
(* agents/minisweagent/extract.py, with no repo directory inferred from    *)
(* the trajectory's metadata (repo_dir_name == "")                         *)
(***************************************************************************)
\* str.startswith("/home/")
StartsWithHome(p) == Len(p) >= 3 /\ SubSeq(p, 1, 3) = <<"/", "home", "/">>

\* the /home/ branch of _normalize_path: the path after the prefix when it
\* has a subpath, "" otherwise
MiniDropHome(p) ==
    LET rest == SubSeq(p, 4, Len(p)) IN
    IF \E i \in 1..Len(rest) : rest[i] = "/" THEN rest ELSE <<>>

\* the steps of _normalize_path after the quotes are stripped
MiniNormalizeStripped(p) ==
    LET q == IF StartsWithTestbed(p) THEN SubSeq(p, 4, Len(p)) ELSE p
        r == IF StartsWithHome(q) THEN MiniDropHome(q) ELSE q
        t == DropLeadingSlashes(r)
    IN IF StartsWithDotSlash(t) THEN SubSeq(t, 3, Len(t)) ELSE t

\* _normalize_path(path, repo_dir_name="")
MiniNormalizePath(path) == MiniNormalizeStripped(StripQuotes(Strip(path)))

RECURSIVE ParseFileLinesPairsLoop(_, _, _)
\* the loop of _parse_file_lines_pairs over the lines of a block
ParseFileLinesPairsLoop(entries, result, current_file) ==
    IF entries = <<>> THEN result
    ELSE LET line == Head(entries) IN
         IF line.k = "File"
         THEN ParseFileLinesPairsLoop(Tail(entries), result,
                                      MiniNormalizePath(Strip(line.path)))
         ELSE IF current_file = <<>> \/ line.k # "Lines"
         THEN ParseFileLinesPairsLoop(Tail(entries), result, current_file)
         ELSE ParseFileLinesPairsLoop(Tail(entries),
                  DictAppend(result, current_file,
                             IF line.a > line.b THEN RawSpan(line.b, line.a)
                             ELSE RawSpan(line.a, line.b)),
                  current_file)

\* _parse_file_lines_pairs(text, repo_dir_name)
ParseFileLinesPairs(entries) == ParseFileLinesPairsLoop(entries, <<>>, <<>>)

\* a message of the trajectory: its role, the <explore_context> blocks and
\* the <PATCH_CONTEXT> blocks of its content, and the chunks of its bash
\* command
Message(role, explore, bash, patch) ==
    [role |-> role, explore |-> explore, bash |-> bash, patch |-> patch]

\* the chunks of a shell command that the view patterns match: a ranged
\* view (sed -n 'a,bp' file) or a whole-file view (cat file)
RangedView(file, a, b) == [file |-> file, ranged |-> TRUE, start |-> a, end |-> b]
WholeFileView(file) == [file |-> file, ranged |-> FALSE]

\* _is_source_file(path): the path ends with a source extension
IsSourceFile(f) == f # <<>> /\ f[Len(f)] \in {"a.py", "b.py", "x.py"}

\* the key of a view in the de-duplication of a command's views
ViewKey(v) == IF v.ranged THEN <<v.file, v.start, v.end>> ELSE <<v.file>>

RECURSIVE DedupViews(_, _)
\* the 'seen' loop: the first view of every key, in order
DedupViews(views, out) ==
    IF views = <<>> THEN out
    ELSE IF \E i \in 1..Len(out) : ViewKey(out[i]) = ViewKey(Head(views))
    THEN DedupViews(Tail(views), out)
    ELSE DedupViews(Tail(views), Append(out, Head(views)))

\* the file of a matched chunk: quotes and a /testbed/ prefix stripped
MiniChunkFile(f) ==
    LET g == StripQuotes(f) IN
    IF StartsWithTestbed(g) THEN SubSeq(g, 4, Len(g)) ELSE g

\* _extract_views_from_command(cmd)
MiniExtractViewsFromCommand(cmd) ==
    DedupViews(
        SelectSeq([i \in 1..Len(cmd) |-> [cmd[i] EXCEPT !.file = MiniChunkFile(cmd[i].file)]],
                  LAMBDA v : IsSourceFile(v.file)),
        <<>>)

RECURSIVE MiniExploreSteps(_)
\* the steps of the <explore_context> blocks, in order
MiniExploreSteps(blocks) ==
    IF blocks = <<>> THEN <<>>
    ELSE LET spans_by_file == ParseFileLinesPairs(Head(blocks)) IN
         IF spans_by_file = <<>> THEN MiniExploreSteps(Tail(blocks))
         ELSE <<UStep(SortedSeq(DictKeys(spans_by_file)), spans_by_file)>>
              \o MiniExploreSteps(Tail(blocks))

RECURSIVE Concat(_)
Concat(xss) == IF xss = <<>> THEN <<>> ELSE Head(xss) \o Concat(Tail(xss))

RECURSIVE MiniViewsLoop(_, _)
\* the loop over the views of one command: step_data
MiniViewsLoop(views, step_data) ==
    IF views = <<>> THEN step_data
    ELSE LET file_path == MiniNormalizePath(Head(views).file) IN
         IF file_path = <<>> THEN MiniViewsLoop(Tail(views), step_data)
         ELSE MiniViewsLoop(Tail(views),
                  UStep(Append(step_data.files, file_path),
                        IF Head(views).ranged
                        THEN DictAppend(step_data.spans, file_path,
                                        RawSpan(Head(views).start, Head(views).end))
                        ELSE step_data.spans))

RECURSIVE MiniBashSteps(_)
\* the fallback: the steps of the assistant messages' bash commands
MiniBashSteps(messages) ==
    IF messages = <<>> THEN <<>>
    ELSE LET msg == Head(messages)
             views == MiniExtractViewsFromCommand(msg.bash)
             step_data == MiniViewsLoop(views, UStep(<<>>, <<>>))
         IN IF msg.role # "assistant" \/ views = <<>> \/ step_data.files = <<>>
            THEN MiniBashSteps(Tail(messages))
            ELSE <<UStep(SortedSeq(step_data.files), step_data.spans)>>
                 \o MiniBashSteps(Tail(messages))

\* extract_trajectory(traj_file) of agents/minisweagent
MiniExtractTrajectory(raw) ==
    LET explore_steps ==
            MiniExploreSteps(Concat([i \in 1..Len(raw.messages) |-> raw.messages[i].explore]))
        steps == IF explore_steps # <<>> THEN explore_steps
                 ELSE MiniBashSteps(raw.messages)
        patch_blocks == Concat([i \in 1..Len(raw.messages) |-> raw.messages[i].patch])
        final_spans == IF patch_blocks # <<>>
                       THEN ParseFileLinesPairs(patch_blocks[Len(patch_blocks)])
                       ELSE <<>>
    IN Returned(Unified(steps, SortedSeq(DictKeys(final_spans)), final_spans))

(***************************************************************************)
(* agents/openhands/extract.py                                             *)
(***************************************************************************)
\* _normalize_path(path)
OhNormalizePath(path) ==
    LET p == StripQuotes(Strip(path))
        q == IF StartsWithTestbed(p) THEN SubSeq(p, 4, Len(p)) ELSE p
        t == DropLeadingSlashes(q)
    IN IF StartsWithDotSlash(t) THEN SubSeq(t, 3, Len(t)) ELSE t

\* the items of the history: a read action with its path and view_range
\* (NoRange when it has none; no start/end arguments), a run action with
\* the chunks of its command, and any other action
ReadAction(path, view_range) == [action |-> "read", path |-> path, view_range |-> view_range]
RunAction(command) == [action |-> "run", command |-> command]
OtherAction == [action |-> "other"]

\* _extract_from_read_action(args): <<>> for None, else <<step>>
OhExtractFromReadAction(args) ==
    LET norm_path == OhNormalizePath(args.path) IN
    IF args.path = <<>> \/ norm_path = <<>> THEN <<>>
    ELSE IF args.view_range # NoRange /\ args.view_range[1] > 0 /\ args.view_range[2] > 0
    THEN <<UStep(<<norm_path>>,
                 << <<norm_path, <<RawSpan(args.view_range[1], args.view_range[2])>> >> >>)>>
    ELSE <<UStep(<<norm_path>>, <<>>)>>

\* the views of a command whose paths are normalized: the sed matches
\* first, then the cat ones; matches with an empty path dropped
OrderViews(normalized) ==
    SelectSeq(SelectSeq(normalized, LAMBDA v : v.ranged)
              \o SelectSeq(normalized, LAMBDA v : ~v.ranged),
              LAMBDA v : v.file # <<>>)

RECURSIVE BuildSpansByFile(_, _)
\* the 'Build result' loop: spans_by_file of the views
BuildSpansByFile(views, spans_by_file) ==
    IF views = <<>> THEN spans_by_file
    ELSE BuildSpansByFile(Tail(views),
             IF Head(views).ranged
             THEN DictAppend(spans_by_file, Head(views).file,
                             RawSpan(Head(views).start, Head(views).end))
             ELSE spans_by_file)

\* the step built from the views of one command
StepOfViews(views) ==
    UStep(SortedSeq([i \in 1..Len(views) |-> views[i].file]), BuildSpansByFile(views, <<>>))

\* _extract_from_run_command(command): <<>> for None, else <<step>>
OhExtractFromRunCommand(command) ==
    LET views == OrderViews([i \in 1..Len(command) |->
                                [command[i] EXCEPT !.file = OhNormalizePath(command[i].file)]])
    IN
    IF views = <<>> THEN <<>>
    ELSE <<StepOfViews(DedupViews(views, <<>>))>>

\* the step of one history item, when it has files
OhItemSteps(item) ==
    IF item.action = "read" THEN OhExtractFromReadAction(item)
    ELSE IF item.action = "run" THEN OhExtractFromRunCommand(item.command)
    ELSE <<>>

\* the (start, end) pairs of one file over all steps, in order
SpansOfFile(steps, f) ==
    Concat([i \in 1..Len(steps) |->
               Concat([j \in 1..Len(steps[i].spans) |->
                          IF steps[i].spans[j][1] = f
                          THEN [k \in 1..Len(steps[i].spans[j][2]) |->
                                   <<steps[i].spans[j][2][k].start, steps[i].spans[j][2][k].end>>]
                          ELSE <<>>])])

RECURSIVE FirstOccurrences(_, _)
\* the distinct elements of a sequence in the order of their first occurrence
FirstOccurrences(xs, out) ==
    IF xs = <<>> THEN out
    ELSE IF \E i \in 1..Len(out) : out[i] = Head(xs)
    THEN FirstOccurrences(Tail(xs), out)
    ELSE FirstOccurrences(Tail(xs), Append(out, Head(xs)))

\* _merge_intervals(intervals): overlapping or adjacent intervals merged
OhMergeIntervals(intervals) == MergeLineIntervals(intervals)

\* _aggregate_steps(steps): <<final_files, final_spans>>
AggregateSteps(steps) ==
    LET all_files == Concat([i \in 1..Len(steps) |-> steps[i].files])
        span_files == FirstOccurrences(
                          Concat([i \in 1..Len(steps) |-> DictKeys(steps[i].spans)]), <<>>)
    IN <<SortedSeq(all_files),
         [n \in 1..Len(span_files) |->
             <<span_files[n],
               LET merged == OhMergeIntervals(SpansOfFile(steps, span_files[n]))
               IN [m \in 1..Len(merged) |-> RawSpan(merged[m][1], merged[m][2])]>>]>>

\* extract_trajectory(data) for the parsed record of an OpenHands trajectory
OhExtractTrajectory(raw) ==
    LET steps == Concat([i \in 1..Len(raw.history) |-> OhItemSteps(raw.history[i])])
        final == AggregateSteps(steps)
    IN Returned(Unified(steps, final[1], final[2]))

(***************************************************************************)
(* agents/openhands/extract_llm_completions.py                             *)
(***************************************************************************)
\* _normalize_path(path): without the /workspace/ prefix, which no path of
\* the model carries
LlmNormalizePath(path) ==
    LET t == DropLeadingSlashes(StripQuotes(Strip(path)))
    IN IF StartsWithDotSlash(t) THEN SubSeq(t, 3, Len(t)) ELSE t

\* the tool calls of the assistant messages: a str_replace_editor view, an
\* execute_bash command, a call whose arguments are not JSON
EditorView(path, view_range) == [tool |-> "view", path |-> path, view_range |-> view_range]
ExecuteBash(command) == [tool |-> "bash", command |-> command]
BadArguments == [tool |-> "bad_arguments"]

\* _extract_from_editor_view(args)
LlmExtractFromEditorView(args) ==
    LET norm_path == LlmNormalizePath(args.path) IN
    IF args.path = <<>> \/ norm_path = <<>> THEN <<>>
    ELSE IF args.view_range # NoRange /\ args.view_range[1] > 0 /\ args.view_range[2] > 0
    THEN <<UStep(<<norm_path>>,
                 << <<norm_path, <<RawSpan(args.view_range[1], args.view_range[2])>> >> >>)>>
    ELSE <<UStep(<<norm_path>>, <<>>)>>

\* cat file counts only if '/' in file_path
HasSlash(f) == \E i \in 1..Len(f) : f[i] = "/"

\* _extract_from_bash_command(args)
LlmExtractFromBashCommand(command) ==
    LET matched == SelectSeq(command, LAMBDA v : v.ranged \/ HasSlash(StripQuotes(v.file)))
        views == OrderViews([i \in 1..Len(matched) |->
                                [matched[i] EXCEPT !.file = LlmNormalizePath(matched[i].file)]])
    IN IF views = <<>> THEN <<>> ELSE <<StepOfViews(views)>>

LlmCallSteps(tool_call) ==
    IF tool_call.tool = "view" THEN LlmExtractFromEditorView(tool_call)
    ELSE IF tool_call.tool = "bash" THEN LlmExtractFromBashCommand(tool_call.command)
    ELSE <<>>

\* extract_trajectory_from_llm_completions(instance_dir_path) for the tool
\* calls of the last completion file
LlmExtractTrajectory(raw) ==
    LET steps == Concat([i \in 1..Len(raw.tool_calls) |-> LlmCallSteps(raw.tool_calls[i])])
        final == AggregateSteps(steps)
    IN Returned(Unified(steps, final[1], final[2]))

(***************************************************************************)
(* agents/prometheus/extract.py: the entries of a block are 'File:' and    *)
(* 'Line number range: a-b'                                                *)
(***************************************************************************)
\* _normalize_file_path(file_path): without the /workspace/ prefix, which
\* no path of the model carries
PromNormalizeFilePath(file_path) ==
    LET p == ReplaceBackslash(Strip(file_path))
        q == IF StartsWithTestbed(p) THEN SubSeq(p, 4, Len(p)) ELSE p
    IN DropLeadingSlashes(q)

RECURSIVE ParseFileRangesLoop(_, _, _)
\* the first loop of _parse_file_ranges: spans_by_file as (a, b) pairs
ParseFileRangesLoop(entries, spans_by_file, current_file) ==
    IF entries = <<>> THEN spans_by_file
    ELSE LET line == Head(entries) IN
         IF line.k = "File"
         THEN ParseFileRangesLoop(Tail(entries),
                  DictInit(spans_by_file, PromNormalizeFilePath(line.path)),
                  PromNormalizeFilePath(line.path))
         ELSE IF line.k = "Lines" /\ current_file # <<>>
         THEN ParseFileRangesLoop(Tail(entries),
                  DictAppend(spans_by_file, current_file,
                             IF line.a > line.b THEN <<line.b, line.a>>
                             ELSE <<line.a, line.b>>),
                  current_file)
         ELSE ParseFileRangesLoop(Tail(entries), spans_by_file, current_file)

\* _to_unified_spans(_parse_file_ranges(block_text)): the files that have
\* a range, each with its merged ranges
PromBlockSpans(entries) ==
    LET spans_by_file == SelectSeq(ParseFileRangesLoop(entries, <<>>, <<>>),
                                   LAMBDA kv : kv[1] # <<>> /\ kv[2] # <<>>)
    IN [n \in 1..Len(spans_by_file) |->
           <<spans_by_file[n][1],
             LET merged == MergeLineIntervals(spans_by_file[n][2])
             IN [m \in 1..Len(merged) |-> RawSpan(merged[m][1], merged[m][2])]>>]

RECURSIVE PromSteps(_)
\* pred_steps: one step for every context block that names a file with a range
PromSteps(step_blocks) ==
    IF step_blocks = <<>> THEN <<>>
    ELSE LET spans == PromBlockSpans(Head(step_blocks)) IN
         IF spans = <<>> THEN PromSteps(Tail(step_blocks))
         ELSE <<UStep(SortedSeq(DictKeys(spans)), spans)>> \o PromSteps(Tail(step_blocks))

\* extract_trajectory(log_file) of the Prometheus adapter
\* the final spans: those of the last aggregated block, else the merged
\* union of the steps' spans
PromFinalSpans(agg_spans, pred_steps) ==
    IF agg_spans # <<>> THEN agg_spans ELSE AggregateSteps(pred_steps)[2]

\* the returned dict; without steps the final context is the only step
PromResult(pred_steps, final_files, final_spans) ==
    IF pred_steps = <<>> /\ final_files # <<>>
    THEN Unified(<<UStep(final_files, final_spans)>>, final_files, final_spans)
    ELSE Unified(pred_steps, final_files, final_spans)

PromSpansResult(pred_steps, final_spans) ==
    PromResult(pred_steps, SortedSeq(DictKeys(final_spans)), final_spans)

PromStepsResult(raw, pred_steps) ==
    PromSpansResult(pred_steps,
        PromFinalSpans(IF raw.agg # <<>> THEN PromBlockSpans(raw.agg[Len(raw.agg)]) ELSE <<>>,
                       pred_steps))

\* extract_trajectory(log_file) of agents/prometheus
PromExtractTrajectory(raw) ==
    IF ~raw.is_file THEN EmptyUnified ELSE PromStepsResult(raw, PromSteps(raw.blocks))

(***************************************************************************)
(* agents/__init__.py and parsers/trajectory.py: the unified interface    *)
(***************************************************************************)
\* the .log branch: the extractor's data when it holds anything, else
\* ValueError
PromOrUnsupported(data) ==
    IF data.pred_steps # <<>> \/ data.pred_files # <<>> \/ data.pred_spans # <<>>
    THEN Returned(data)
    ELSE Raised

\* extract_trajectory(traj_file_or_data) of agents/__init__.py
ExtractUnified(raw) ==
    IF raw.adapter = "openhands"
    THEN IF raw.has_history THEN OhExtractTrajectory(raw) ELSE Raised
    ELSE IF raw.adapter = "sweagent" THEN SweExtractTrajectory(raw)
    ELSE IF raw.adapter = "minisweagent" THEN MiniExtractTrajectory(raw)
    ELSE PromOrUnsupported(PromExtractTrajectory(raw))

\* load_traj_file(traj_file): the traj_data of the loaded record
LoadTrajFile(raw) ==
    IF raw.adapter = "llm_completions" THEN LlmExtractTrajectory(raw)
    ELSE ExtractUnified(raw)

\* _safe_extract_unified(data)
SafeResult(extracted) ==
    IF extracted.raised THEN Returned(EmptyUnified) ELSE extracted

SafeExtractUnified(raw) == SafeResult(ExtractUnified(raw))

\* one line of _load_openhands_jsonl: json.loads, then the guarded extraction
LoadOpenhandsLine(raw) ==
    IF raw.bad_json THEN Raised ELSE SafeExtractUnified(raw)

(***************************************************************************)
(* Specification: one raw trajectory is loaded through its adapter        *)
(***************************************************************************)
EntryPool ==
    { FileEntry(PathTestbedA), FileEntry(FB), LinesEntry(1, 2), LinesEntry(3, 1),
      LinesText(TRUE), LinesText(FALSE) }

\* the context blocks of up to MaxEntries entries
Blocks == UNION { [1..n -> EntryPool] : n \in 0..MaxEntries }

\* the blocks that messages, checkpoints and logs carry
SmallBlocks ==
    { <<FileEntry(PathTestbedA), LinesEntry(1, 2)>>,
      <<FileEntry(FB), LinesEntry(3, 1)>>,
      <<FileEntry(FB)>>,
      <<FileEntry(FB), LinesEntry(1, 2), LinesEntry(1, 2)>>,
      <<FileEntry(FB), LinesText(TRUE), LinesEntry(1, 2)>> }

CheckpointPool ==
    { BadJsonLine, OtherCheckpoint,
      ViewCheckpoint(PathTestbedA, NoRange), ViewCheckpoint(PathTestbedA, <<1, 2>>),
      ViewCheckpoint(FB, <<3, 1>>) }
    \cup { PatchContextCheckpoint(b) : b \in SmallBlocks }

\* shell commands as the chunks their view patterns match
CommandPool ==
    { <<WholeFileView(PathTestbedA)>>,
      <<RangedView(FB, 1, 2), RangedView(PathDotSlashB, 1, 2)>>,
      <<RangedView(PathTestbedA, 1, 2), RangedView(PathTestbedA, 1, 2)>>,
      <<RangedView(FB, 3, 1), WholeFileView(FB)>> }

MessagePool ==
    { Message("assistant", <<b>>, <<>>, <<>>) : b \in SmallBlocks }
    \cup { Message("assistant", <<>>, cmd, <<>>) : cmd \in CommandPool }
    \cup { Message("user", <<>>, <<WholeFileView(FB)>>, <<>>),
           Message("assistant", <<>>, <<>>, << <<FileEntry(FB), LinesEntry(1, 2)>> >>) }

HistoryPool ==
    { OtherAction, ReadAction(PathTestbedA, NoRange), ReadAction(FB, <<1, 2>>),
      ReadAction(FB, <<3, 1>>) }
    \cup { RunAction(cmd) : cmd \in CommandPool }

ToolCallPool ==
    { BadArguments, EditorView(PathTestbedA, NoRange), EditorView(FB, <<1, 2>>),
      EditorView(FB, <<3, 1>>) }
    \cup { ExecuteBash(cmd) : cmd \in CommandPool }

\* the sequences of at most MaxItems elements of S
Items(S) == UNION { [1..n -> S] : n \in 0..MaxItems }

SweInputs ==
    { [adapter |-> "sweagent", format |-> "patch_context.txt", entries |-> b, lines |-> <<>>] :
        b \in Blocks }
    \cup { [adapter |-> "sweagent", format |-> ".checkpoints.jsonl", entries |-> <<>>, lines |-> ls] :
             ls \in Items(CheckpointPool) }

MiniInputs == { [adapter |-> "minisweagent", messages |-> ms] : ms \in Items(MessagePool) }

OhInputs ==
    { [adapter |-> "openhands", bad_json |-> FALSE, has_history |-> TRUE, history |-> h] :
        h \in Items(HistoryPool) }
    \cup { [adapter |-> "openhands", bad_json |-> bad, has_history |-> FALSE, history |-> <<>>] :
             bad \in BOOLEAN }

LlmInputs == { [adapter |-> "llm_completions", tool_calls |-> tc] : tc \in Items(ToolCallPool) }

PromInputs ==
    { [adapter |-> "prometheus", is_file |-> TRUE, blocks |-> bs, agg |-> ag] :
        bs \in Items(SmallBlocks),
        ag \in { <<>>, << <<FileEntry(FB), LinesEntry(3, 1)>> >>, << <<FileEntry(FB)>> >> } }
    \cup { [adapter |-> "prometheus", is_file |-> FALSE, blocks |-> <<>>, agg |-> <<>>] }

InitAdapter ==
    /\ ain \in SweInputs \cup MiniInputs \cup OhInputs \cup LlmInputs \cup PromInputs
    /\ aout = EmptyUnified
    /\ apc = "call"
    /\ IdleResolve /\ IdleMetrics /\ IdleCovPrec /\ IdleEditLoc /\ IdleDriver /\ IdleDefs /\ IdleIntervals /\ IdleRun

\* the call returns loaded.value or ends with the exception
Finished(loaded) ==
    /\ aout' = loaded.value
    /\ apc' = IF loaded.raised THEN "raised" ELSE "done"
    /\ UNCHANGED <<ain, rvars, mvars, cvars, evars, dvars, tvars, ivars, gvars>>

LoadSweAgent ==
    /\ apc = "call" /\ ain.adapter = "sweagent"
    /\ \E loaded \in {LoadTrajFile(ain)} : Finished(loaded)

LoadMiniSweAgent ==
    /\ apc = "call" /\ ain.adapter = "minisweagent"
    /\ \E loaded \in {LoadTrajFile(ain)} : Finished(loaded)

LoadOpenHands ==
    /\ apc = "call" /\ ain.adapter = "openhands"
    /\ \E loaded \in {LoadOpenhandsLine(ain)} : Finished(loaded)

LoadLlmCompletions ==
    /\ apc = "call" /\ ain.adapter = "llm_completions"
    /\ \E loaded \in {LoadTrajFile(ain)} : Finished(loaded)

LoadPrometheus ==
    /\ apc = "call" /\ ain.adapter = "prometheus"
    /\ \E loaded \in {LoadTrajFile(ain)} : Finished(loaded)

NextAdapter ==
    \/ LoadSweAgent
    \/ LoadMiniSweAgent
    \/ LoadOpenHands
    \/ LoadLlmCompletions
    \/ LoadPrometheus

SpecAdapter == InitAdapter /\ [][NextAdapter]_vars

(***************************************************************************)
(* Properties of the adapters                                              *)
(***************************************************************************)
\* the views of the shell commands an adapter parses, with raw paths
CommandViews(raw) ==
    IF raw.adapter = "minisweagent"
    THEN IF \E i \in 1..Len(raw.messages) : raw.messages[i].explore # <<>>
         THEN <<>>
         ELSE Concat([i \in 1..Len(raw.messages) |->
                         IF raw.messages[i].role = "assistant"
                         THEN raw.messages[i].bash ELSE <<>>])
    ELSE IF raw.adapter = "openhands"
    THEN Concat([i \in 1..Len(raw.history) |->
                    IF raw.history[i].action = "run" THEN raw.history[i].command ELSE <<>>])
    ELSE IF raw.adapter = "llm_completions"
    THEN Concat([i \in 1..Len(raw.tool_calls) |->
                    IF raw.tool_calls[i].tool = "bash"
                    THEN raw.tool_calls[i].command ELSE <<>>])
    ELSE <<>>

\* the view, read and editor actions of a raw trajectory as <<path, view_range>>
FileActions(raw) ==
    IF raw.adapter = "sweagent"
    THEN { <<raw.lines[i].file, raw.lines[i].view_range>> :
             i \in { j \in 1..Len(raw.lines) : raw.lines[j].kind = "view" } }
    ELSE IF raw.adapter = "openhands"
    THEN { <<raw.history[i].path, raw.history[i].view_range>> :
             i \in { j \in 1..Len(raw.history) : raw.history[j].action = "read" } }
    ELSE IF raw.adapter = "llm_completions"
    THEN { <<raw.tool_calls[i].path, raw.tool_calls[i].view_range>> :
             i \in { j \in 1..Len(raw.tool_calls) : raw.tool_calls[j].tool = "view" } }
    ELSE {}

\* the name an adapter gives to an observed path
ObservedFile(raw, path) ==
    IF raw.adapter = "sweagent" THEN SweNormalizeFilePath(path)
    ELSE IF raw.adapter = "minisweagent" THEN MiniNormalizePath(path)
    ELSE IF raw.adapter = "openhands" THEN OhNormalizePath(path)
    ELSE LlmNormalizePath(path)

\* the files a raw trajectory observes whole, and those it observes by range
WholeFileSeen(raw) ==
    { ObservedFile(raw, v.file) : v \in { w \in SeqToSet(CommandViews(raw)) : ~w.ranged } }
    \cup { ObservedFile(raw, a[1]) : a \in { b \in FileActions(raw) : b[2] = NoRange } }

RangedSeen(raw) ==
    { ObservedFile(raw, v.file) : v \in { w \in SeqToSet(CommandViews(raw)) : w.ranged } }
    \cup { ObservedFile(raw, a[1]) : a \in { b \in FileActions(raw) : b[2] # NoRange } }

\* the spans a step holds for file f
StepSpansOf(step, f) ==
    Concat([j \in 1..Len(step.spans) |->
               IF step.spans[j][1] = f THEN step.spans[j][2] ELSE <<>>])

\* C15: in every adapter a whole-file observation (a view, read or cat
\* without a range) adds the file to the files of a step, and adds no line
\* span: a file that is only observed whole has no span in any step.
C15_WholeFileObservation ==
    apc = "done" =>
        \A f \in WholeFileSeen(ain) :
            /\ \E i \in 1..Len(aout.pred_steps) : f \in SeqToSet(aout.pred_steps[i].files)
            /\ f \notin RangedSeen(ain) =>
                   \A i \in 1..Len(aout.pred_steps) : StepSpansOf(aout.pred_steps[i], f) = <<>>

\* all spans of a spans dict
DictSpans(spans) == Concat([j \in 1..Len(spans) |-> spans[j][2]])

\* all spans of a unified trajectory: of its steps and of its final context
UnifiedSpans(data) ==
    Concat([i \in 1..Len(data.pred_steps) |-> DictSpans(data.pred_steps[i].spans)])
    \o DictSpans(data.pred_spans)

\* C16: every line span an adapter puts into a unified trajectory satisfies
\* start <= end, whatever the order of the two numbers in the raw
\* trajectory, so every line interval has length end - start + 1 >= 1.
C16_SpansAreOrdered ==
    apc = "done" =>
        \A k \in 1..Len(UnifiedSpans(aout)) :
            /\ UnifiedSpans(aout)[k].start <= UnifiedSpans(aout)[k].end
            /\ UnifiedSpans(aout)[k].end - UnifiedSpans(aout)[k].start + 1 >= 1

\* C17: within one step produced by an adapter no two spans have the same
\* (file, start, end).
C17_NoDuplicateSpansInStep ==
    apc = "done" =>
        \A i \in 1..Len(aout.pred_steps) :
            \A j \in 1..Len(aout.pred_steps[i].spans) :
                LET file_spans == aout.pred_steps[i].spans[j][2] IN
                \A m, n \in 1..Len(file_spans) : m # n => file_spans[m] # file_spans[n]

\* all <explore_context> blocks of a MiniSWE trajectory
ExploreBlocks(raw) == Concat([i \in 1..Len(raw.messages) |-> raw.messages[i].explore])

\* C18: the MiniSWE adapter takes its steps from the <explore_context>
\* blocks; the steps come from the heuristic parsing of bash commands only
\* when the trajectory contains no such block at all.
C18_BashOnlyWithoutExploreBlocks ==
    (apc = "done" /\ ain.adapter = "minisweagent") =>
        IF ExploreBlocks(ain) # <<>>
        THEN aout.pred_steps = MiniExploreSteps(ExploreBlocks(ain))
        ELSE aout.pred_steps = MiniBashSteps(ain.messages)

\* the raw trajectory holds no observation and no context block
NothingExtractable(raw) ==
    IF raw.adapter = "sweagent"
    THEN raw.entries = <<>> /\ \A i \in 1..Len(raw.lines) : raw.lines[i].kind = "other"
    ELSE IF raw.adapter = "minisweagent"
    THEN \A i \in 1..Len(raw.messages) :
             /\ raw.messages[i].explore = <<>>
             /\ raw.messages[i].bash = <<>>
             /\ raw.messages[i].patch = <<>>
    ELSE IF raw.adapter = "openhands"
    THEN /\ ~raw.bad_json /\ raw.has_history
         /\ \A i \in 1..Len(raw.history) : raw.history[i].action = "other"
    ELSE IF raw.adapter = "llm_completions"
    THEN raw.tool_calls = <<>>
    ELSE raw.blocks = <<>> /\ raw.agg = <<>>

\* C19: a raw trajectory with nothing extractable is valid for every
\* adapter: the unified interface returns an empty unified trajectory and
\* raises no error.
C19_NothingExtractableIsEmpty ==
    (apc \in {"done", "raised"} /\ NothingExtractable(ain)) =>
        /\ apc = "done"
        /\ aout = EmptyUnified

\* a block without its 'Lines:' entries that are not two integers
WellFormedEntries(entries) == SelectSeq(entries, LAMBDA e : e.k # "LinesText")

\* the raw trajectory without its malformed records and fragments
WithoutMalformed(raw) ==
    IF raw.adapter = "sweagent"
    THEN [raw EXCEPT
            !.entries = WellFormedEntries(raw.entries),
            !.lines = LET kept == SelectSeq(raw.lines, LAMBDA c : c.kind # "bad_json")
                      IN [i \in 1..Len(kept) |->
                             IF kept[i].kind = "patch_context"
                             THEN PatchContextCheckpoint(WellFormedEntries(kept[i].entries))
                             ELSE kept[i]]]
    ELSE IF raw.adapter = "minisweagent"
    THEN [raw EXCEPT
            !.messages = [i \in 1..Len(raw.messages) |->
                [raw.messages[i] EXCEPT
                    !.explore = [j \in 1..Len(raw.messages[i].explore) |->
                                    WellFormedEntries(raw.messages[i].explore[j])],
                    !.patch = [j \in 1..Len(raw.messages[i].patch) |->
                                  WellFormedEntries(raw.messages[i].patch[j])]]]]
    ELSE IF raw.adapter = "openhands"
    THEN IF raw.bad_json THEN [raw EXCEPT !.bad_json = FALSE] ELSE raw
    ELSE IF raw.adapter = "llm_completions"
    THEN [raw EXCEPT !.tool_calls = SelectSeq(raw.tool_calls, LAMBDA t : t.tool # "bad_arguments")]
    ELSE [raw EXCEPT
            !.blocks = [j \in 1..Len(raw.blocks) |-> WellFormedEntries(raw.blocks[j])],
            !.agg = [j \in 1..Len(raw.agg) |-> WellFormedEntries(raw.agg[j])]]

\* what loading a raw trajectory gives
Loaded(raw) ==
    IF raw.adapter = "openhands" THEN LoadOpenhandsLine(raw) ELSE LoadTrajFile(raw)

\* C20: a malformed record or fragment (an unparsable JSON line, a 'Lines:'
\* entry that is not two integers) is skipped by the adapter: the call never
\* aborts and returns what the rest of the trajectory gives.
C20_MalformedIsSkipped ==
    (apc \in {"done", "raised"} /\ WithoutMalformed(ain) # ain) =>
        /\ apc = "done"
        /\ ~Loaded(WithoutMalformed(ain)).raised
        /\ aout = Loaded(WithoutMalformed(ain)).value

(***************************************************************************)
(* The resolver on the named paths, over worktrees that hold more files   *)
(***************************************************************************)
\* files a checked-out repository may hold besides src/a.py and b.py
WorktreeExtras ==
    { << <<"repo">>, <<"testbed">>, <<"src">>, <<"a.py">> >>,
      << <<"repo">>, <<"testbed">>, <<"a.py">> >>,
      << <<"repo">>, <<"a.py">> >>,
      << <<"repo">>, <<"etc">>, <<"passwd">> >>,
      << <<"repo">>, <<"passwd">> >> }

InitWorktree ==
    /\ cand \in NamedCands
    /\ wfiles \in SUBSET WorktreeExtras
    /\ resolved = NoValue
    /\ rpc = "call"
    /\ IdleMetrics /\ IdleCovPrec /\ IdleEditLoc /\ IdleDriver /\ IdleDefs /\ IdleAdapter /\ IdleIntervals /\ IdleRun

NextWorktree == Resolve

SpecWorktree == InitWorktree /\ [][NextWorktree]_vars

PathEtcPasswd == <<"/", "etc", "/", "passwd">>

\* the worktree holds the regular file with this repo-relative path
WorktreeHas(rel) == RealPathInRepo(rel) \in RealFiles

\* C24 as stated: with repo_dir/src/a.py existing, "/testbed/src/a.py" and
\* "src/a.py" both resolve to "src/a.py", and "/etc/passwd" resolves to the
\* empty string
C24_NamedPathsAsStated ==
    rpc = "done" =>
        /\ cand \in {PathTestbedA, FA} => resolved = FA
        /\ cand = PathEtcPasswd => resolved = EmptyStr

\* C24 amended: with repo_dir/src/a.py existing, "src/a.py" resolves to
\* "src/a.py"; "/testbed/src/a.py" resolves to "src/a.py" unless the
\* worktree holds testbed/src/a.py, which is then the result; "/etc/passwd"
\* resolves to the empty string unless the worktree holds etc/passwd or
\* passwd, and then to the longer of the two that exists
C24_NamedPaths ==
    rpc = "done" =>
        /\ cand = FA => resolved = FA
        /\ cand = PathTestbedA =>
             resolved = IF WorktreeHas(<<"testbed", "/", "src", "/", "a.py">>)
                        THEN <<"testbed", "/", "src", "/", "a.py">>
                        ELSE FA
        /\ cand = PathEtcPasswd =>
             resolved = IF WorktreeHas(<<"etc", "/", "passwd">>)
                        THEN <<"etc", "/", "passwd">>
                        ELSE IF WorktreeHas(<<"passwd">>) THEN <<"passwd">>
                        ELSE EmptyStr

\* the container prefix is dropped in a worktree that holds other files too
C24_Witness ==
    /\ rpc = "done"
    /\ cand = PathTestbedA
    /\ resolved = FA
    /\ << <<"repo">>, <<"passwd">> >> \in wfiles

(***************************************************************************)
(* The line-interval functions on their own                                *)
(***************************************************************************)
MaxLine == 3
MaxIvs == 2

\* (start_line, end_line) pairs as the adapters deliver them: both positive,
\* in either order
LineIvs == (1..MaxLine) \X (1..MaxLine)

\* the lists given to _merge_line_intervals
LineIvLists == UNION { [1..n -> LineIvs] : n \in 0..MaxIvs }

\* the lists given to _line_interval_intersect: up to two intervals each
LineIvShortLists ==
    {<<>>} \cup {<<x>> : x \in LineIvs} \cup {<<x, y>> : x \in LineIvs, y \in LineIvs}

InitIntervals ==
    /\ iin \in ([op : {"merge"}, a : LineIvLists, b : {<<>>}]
                \cup [op : {"intersect"}, a : LineIvShortLists, b : LineIvShortLists])
    /\ iout = NoValue
    /\ ipc = "call"
    /\ IdleResolve /\ IdleMetrics /\ IdleCovPrec /\ IdleEditLoc /\ IdleDriver /\ IdleDefs /\ IdleAdapter /\ IdleRun

\* merge(x) and merge(merge(x)) of _merge_line_intervals
CallMerge ==
    /\ ipc = "call"
    /\ iin.op = "merge"
    /\ \E once \in {MergeLineIntervals(iin.a)} :
         iout' = [once |-> once, twice |-> MergeLineIntervals(once)]
    /\ ipc' = "done"
    /\ UNCHANGED <<iin, rvars, mvars, cvars, evars, dvars, tvars, avars, gvars>>

\* _line_interval_intersect_size both ways, and line_intersection_lines both
\* ways on dicts that hold the lists under src/a.py and b.py
CallIntersect ==
    /\ ipc = "call"
    /\ iin.op = "intersect"
    /\ \E da \in {(FA :> iin.a) @@ (FB :> iin.b)}, db \in {(FA :> iin.b)} :
         iout' = [ab |-> LineIntervalIntersectSize(iin.a, iin.b),
                  ba |-> LineIntervalIntersectSize(iin.b, iin.a),
                  dab |-> LineIntersectionLines(da, db),
                  dba |-> LineIntersectionLines(db, da)]
    /\ ipc' = "done"
    /\ UNCHANGED <<iin, rvars, mvars, cvars, evars, dvars, tvars, avars, gvars>>

NextIntervals == CallMerge \/ CallIntersect

SpecIntervals == InitIntervals /\ [][NextIntervals]_vars

\* the lines an interval list covers
LinesOf(ivs) == {n \in 1..(MaxLine + 1) : \E k \in 1..Len(ivs) : ivs[k][1] <= n /\ n <= ivs[k][2]}

\* every interval of the list has start <= end
WellFormed(ivs) == \A k \in 1..Len(ivs) : ivs[k][1] <= ivs[k][2]

\* C26: for a list x of intervals with start <= end, merge(merge(x)) equals
\* merge(x); merge(x) is sorted, covers exactly the lines of x, and any two
\* of its intervals are separated by at least one uncovered line
C26_MergeIdempotent ==
    (ipc = "done" /\ iin.op = "merge" /\ WellFormed(iin.a)) =>
        /\ iout.twice = iout.once
        /\ \A k \in 1..(Len(iout.once) - 1) : iout.once[k][2] + 1 < iout.once[k + 1][1]
        /\ WellFormed(iout.once)
        /\ LinesOf(iout.once) = LinesOf(iin.a)

\* an unsorted list with overlapping intervals and a gap is merged into two
C26_Witness ==
    /\ ipc = "done"
    /\ iin.op = "merge"
    /\ iin.a = << <<3, 3>>, <<1, 1>> >>
    /\ iout.once = << <<1, 1>>, <<3, 3>> >>
    /\ iout.twice = iout.once

\* C27: the line intersection size of (a, b) equals that of (b, a), for the
\* interval lists and for the per-file dicts, and both equal the number of
\* lines covered by both a and b
C27_IntersectSymmetric ==
    (ipc = "done" /\ iin.op = "intersect") =>
        /\ iout.ab = iout.ba
        /\ iout.dab = iout.dba
        /\ iout.ab = Cardinality(LinesOf(iin.a) \cap LinesOf(iin.b))
        /\ iout.dab = iout.ab

\* two overlapping lists in different orders share lines 2 and 3
C27_Witness ==
    /\ ipc = "done"
    /\ iin.op = "intersect"
    /\ iin.a = << <<2, 3>>, <<1, 1>> >>
    /\ iin.b = << <<2, 3>> >>
    /\ iout.ab = 2
    /\ iout.ba = 2

\* C28: the cumulative coverage of steps 1..T never decreases from one step
\* to the next, at every granularity, and therefore the AUC-coverage never
\* exceeds the coverage at the last step
C28_CoverageMonotone ==
    (mpc = "done" /\ Len(msteps) > 0) =>
        \A g \in Grans :
            /\ \A t \in 1..(Len(msteps) - 1) :
                   FLeq(mres.steps[t][g], mres.steps[t + 1][g])
            /\ FLeq(mres.auc_coverage[g], mres.steps[Len(msteps)][g])

\* the first step misses gold and the second reaches it: the line coverage
\* grows and the AUC stays below the last coverage
C28_Witness ==
    /\ mpc = "done"
    /\ Len(msteps) = 2
    /\ mres.steps[1]["line"] = FZero
    /\ mres.steps[2]["line"] = FOne
    /\ mres.auc_coverage["line"] = <<1, 2>>

\* C29: for every trajectory and granularity the redundancy r satisfies
\* 0 <= r < 1
C29_RedundancyRange ==
    mpc = "done" =>
        \A g \in Grans :
            /\ FLeq(FZero, mres.redundancy[g])
            /\ mres.redundancy[g][1] < mres.redundancy[g][2]

\* the steps parse_trajectory hands to _filter_step_to_repo for a prediction
ParsedSteps(pred_data) ==
    LET parsed == ParseTrajectory(pred_data)
    IN SeqToSet(parsed.traj_steps) \cup {parsed.final_step}

\* C30: _filter_step_to_repo is idempotent: applied to a step it has already
\* filtered, it leaves files, spans and symbols unchanged (the driver does
\* apply it twice to the final step of a trajectory without steps)
C30_FilterIdempotent ==
    \A i \in 1..Len(dpreds) :
        (/\ InstanceId(dpreds[i]) \in DOMAIN GoldStore
         /\ CheckoutOk(InstanceId(dpreds[i]))
         /\ ~ParseTrajectoryRaises(dpreds[i])) =>
            \A step \in ParsedSteps(dpreds[i]) :
                FilterStepToRepoAgain(FilterStepToRepo(step)) = FilterStepToRepo(step)

(***************************************************************************)
(* The two extractors with the grammars of the environment, on a worktree *)
(* that also holds k.kt, s.java, n.txt and bad.py                         *)
(***************************************************************************)
ExtractorFiles ==
    { << <<"repo">>, <<"k.kt">> >>, << <<"repo">>, <<"s.java">> >>,
      << <<"repo">>, <<"n.txt">> >>, << <<"repo">>, <<"bad.py">> >> }

\* _get_parser_for_lang(lang) returns a parser: available() needs the
\* Python parser, and _get_parser(lang) must not fail
HasParser(lang, unavailable) == "python" \notin unavailable /\ lang \notin unavailable

\* extract_defs and extract_named_defs raise RuntimeError for this file
DefsRaise(f, unavailable) == LangOf(f) # NoLang /\ ~HasParser(LangOf(f), unavailable)

\* extract_def_set_in_spans(spans_by_file, repo_dir) with its outcome
DefSetInSpansOutcome(spans_by_file, unavailable) ==
    LET existing == { f \in DOMAIN spans_by_file : FileExists(f) }
    IN IF \E f \in existing : DefsRaise(f, unavailable) THEN Raised
       ELSE Returned(ExtractDefSetInSpans(spans_by_file))

\* extract_def_set_from_symbol_names(pred_symbols_by_file, repo_dir) with its
\* outcome
DefSetFromNamesOutcome(symbols_by_file, unavailable) ==
    LET existing == { f \in DOMAIN symbols_by_file :
                        f # <<>> /\ symbols_by_file[f] # <<>> /\ FileExists(f) }
    IN IF \E f \in existing : DefsRaise(f, unavailable) THEN Raised
       ELSE Returned(ExtractDefSetFromSymbolNames(symbols_by_file))

\* the languages whose grammar the environment may lack
UnavailablePool == { {}, {"kotlin"}, {"python"} }

ExtractorFilePool == {FA, FKotlin, FText, FUnreadable, FMissing}

\* spans_by_file arguments: one interval for each file of a set of files
ExtractorSpansPool ==
    { [f \in fs |-> <<iv>>] :
        fs \in SUBSET ExtractorFilePool \ {{}},
        iv \in { <<0, LineBytes>>, <<0, FileLines * LineBytes>> } }

\* declared names: the sequence of the dotted parts, <<>> for an empty name
NameListPool ==
    { << <<"f">> >>, << <<"x", "f">> >>, << <<"run">> >>, << <<"K", "run">> >>,
      << <<"zzz">> >>, << <<"K", "zzz">> >>, << <<>>, <<"g">> >>,
      << <<"K", "run">>, <<"f">> >>, <<>> }

\* pred_symbols_by_file arguments: one name list for each file of a set
ExtractorNamesPool ==
    { [f \in fs |-> names] :
        fs \in SUBSET {FA, FKotlin, FJava, FUnreadable, FMissing} \ {{}}, names \in NameListPool }

InitExtractor ==
    /\ tin \in ([op : {"spans"}, arg : ExtractorSpansPool, unavailable : UnavailablePool]
                \cup [op : {"names"}, arg : ExtractorNamesPool, unavailable : UnavailablePool])
    /\ tout = NoValue
    /\ tpc = "call"
    /\ cand = NoValue /\ resolved = NoValue /\ rpc = "idle" /\ wfiles = ExtractorFiles
    /\ IdleMetrics /\ IdleCovPrec /\ IdleEditLoc /\ IdleDriver /\ IdleAdapter /\ IdleIntervals /\ IdleRun

\* one call of extract_def_set_in_spans
CallDefSetInSpans ==
    /\ tpc = "call"
    /\ tin.op = "spans"
    /\ \E outcome \in {DefSetInSpansOutcome(tin.arg, tin.unavailable)} :
         /\ tout' = outcome
         /\ tpc' = IF outcome.raised THEN "raised" ELSE "done"
    /\ UNCHANGED <<tin, rvars, mvars, cvars, evars, dvars, avars, ivars, gvars>>

\* one call of extract_def_set_from_symbol_names
CallDefSetFromNames ==
    /\ tpc = "call"
    /\ tin.op = "names"
    /\ \E outcome \in {DefSetFromNamesOutcome(tin.arg, tin.unavailable)} :
         /\ tout' = outcome
         /\ tpc' = IF outcome.raised THEN "raised" ELSE "done"
    /\ UNCHANGED <<tin, rvars, mvars, cvars, evars, dvars, avars, ivars, gvars>>

NextExtractor == CallDefSetInSpans \/ CallDefSetFromNames

SpecExtractor == InitExtractor /\ [][NextExtractor]_vars

\* the file has a grammar that loads and can be parsed
Parsable(f, unavailable) ==
    LangOf(f) # NoLang /\ HasParser(LangOf(f), unavailable) /\ ~ParseFails(f)

\* C21: a file for which no grammar is available, or whose parsing fails,
\* contributes zero definitions to extract_def_set_in_spans and to
\* extract_def_set_from_symbol_names; the other files are extracted and no
\* error is raised
C21_UnparsableFileContributesNothing ==
    tpc \in {"done", "raised"} =>
        /\ tpc = "done"
        /\ \A d \in tout.value : Parsable(d[1], tin.unavailable)
        /\ \A f \in DOMAIN tin.arg :
               Parsable(f, tin.unavailable) =>
                   { d \in tout.value : d[1] = f }
                       = IF tin.op = "spans"
                         THEN ExtractDefSetInSpans([g \in {f} |-> tin.arg[f]])
                         ELSE ExtractDefSetFromSymbolNames([g \in {f} |-> tin.arg[f]])

\* the set of definitions of file f that carry the name
NamedExactly(f, name) == { <<f, d[1], d[3], d[4]>> : d \in { e \in NamedDefs(f) : e[2] = name } }

\* what the claim gives a declared name of file f
ResolvedByClaim(f, name) ==
    IF name = <<>> THEN {}
    ELSE IF NamedExactly(f, name) # {} THEN NamedExactly(f, name)
    ELSE IF Len(name) > 1 THEN NamedExactly(f, <<name[Len(name)]>>)
    ELSE {}

\* C25: extract_def_set_from_symbol_names resolves a declared name to the
\* definitions of that file whose identifier equals the name; only when no
\* definition has exactly that name does it use the definitions named by the
\* part after the last dot; a name that matches no definition contributes
\* nothing
C25_ExactNameBeforeDottedSuffix ==
    (tpc = "done" /\ tin.op = "names") =>
        tout.value = UNION { UNION { ResolvedByClaim(f, tin.arg[f][i]) :
                                       i \in 1..Len(tin.arg[f]) } :
                               f \in { g \in DOMAIN tin.arg : FileExists(g) } }

\* K.run in s.java, which has a definition K.run and two definitions run:
\* only the definition named K.run is returned
C25_Witness ==
    /\ tpc = "done"
    /\ tin.op = "names"
    /\ tin.arg = [f \in {FJava} |-> << <<"K", "run">> >>]
    /\ tout.value = { <<FJava, "method_declaration", 0, LineBytes>> }

(***************************************************************************)
(* evaluate.py: a run of main, in evaluation mode and in the mode         *)
(* --extract_gold_symbols (extract_gold_symbols_fullset)                  *)
(***************************************************************************)
MaxGolds == 3

\* the n-th gold row: rows with an even number carry only original_inst_id
GoldRow(n) ==
    [inst_id |-> IF n % 2 = 0 THEN EmptyStr ELSE <<"i", n>>,
     original_inst_id |-> IF n % 2 = 0 THEN <<"o", n>> ELSE EmptyStr]

\* _gold_row_ids(gold)[0] for a gold row that carries one of the two ids
GoldKey(gold) == IF gold.inst_id # EmptyStr THEN gold.inst_id ELSE gold.original_inst_id

\* the key _load_done_keys reads from a row of the output file
RowKey(row) == IF row.inst_id # EmptyStr THEN row.inst_id ELSE row.original_inst_id

\* the row _extract_one_gold_symbols returns: gold symbols, or a typed error
WorkerRow(gold, error) ==
    [inst_id |-> gold.inst_id, original_inst_id |-> gold.original_inst_id, error |-> error]

\* the row written for a worker whose future raised
WorkerFailedRow ==
    [inst_id |-> EmptyStr, original_inst_id |-> EmptyStr, error |-> "worker_failed"]

\* _load_done_keys(out_path)
LoadDoneKeys(file) ==
    IF ~file.exists THEN {}
    ELSE {RowKey(file.rows[i]) : i \in 1..Len(file.rows)} \ {EmptyStr}

\* mutant of the availability probe: the backend always counts as available
TsAvailableAlways(args) == TRUE

\* extractors.available()
TsAvailable(args) == args.available

\* the task list of extract_gold_symbols_fullset
BuildTasks(gold_list, resume, done_keys) ==
    SelectSeq(gold_list,
              LAMBDA gold : GoldKey(gold) # EmptyStr /\ ~(resume /\ GoldKey(gold) \in done_keys))

\* the output files a run may find: none, or the rows an earlier run wrote
\* for some of the first n gold rows, in the order of the gold list
EarlierFiles(n) ==
    { [exists |-> FALSE, rows |-> <<>>] }
    \cup { [exists |-> TRUE,
            rows |-> [k \in 1..Len(SelectSeq([m \in 1..n |-> m], LAMBDA m : m \in S)) |->
                        WorkerRow(GoldRow(SelectSeq([m \in 1..n |-> m], LAMBDA m : m \in S)[k]), "")]] :
           S \in SUBSET (1..n) }

RunArgs ==
    UNION { [mode : {"extract"}, available : BOOLEAN, resume : BOOLEAN, parallel : BOOLEAN,
             golds : {[m \in 1..n |-> GoldRow(m)]}, file0 : EarlierFiles(n)]
            \cup [mode : {"evaluate"}, available : BOOLEAN, resume : {FALSE}, parallel : {FALSE},
                  golds : {[m \in 1..n |-> GoldRow(m)]}, file0 : EarlierFiles(n)] :
            n \in 0..MaxGolds }

InitRun ==
    /\ gargs \in RunArgs
    /\ gfile = gargs.file0
    /\ gtasks = <<>>
    /\ gresults = <<>>
    /\ gdone = <<>>
    /\ gerrors = 0
    /\ gpc = "start"
    /\ grc = -1
    /\ IdleResolve /\ IdleMetrics /\ IdleCovPrec /\ IdleEditLoc /\ IdleDriver /\ IdleDefs /\ IdleAdapter /\ IdleIntervals

\* extract_gold_symbols_fullset up to its loop: the availability check, the
\* keys already written, the output file opened for append or truncated, the
\* task list
StartExtract ==
    /\ gpc = "start"
    /\ gargs.mode = "extract"
    /\ IF ~TsAvailable(gargs)
       THEN /\ grc' = 1
            /\ gpc' = "exit"
            /\ UNCHANGED <<gfile, gtasks>>
       ELSE \E tasks \in {BuildTasks(gargs.golds, gargs.resume,
                                     IF gargs.resume THEN LoadDoneKeys(gfile) ELSE {})} :
            /\ gfile' = IF gargs.resume /\ gfile.exists THEN gfile
                        ELSE [exists |-> TRUE, rows |-> <<>>]
            /\ gtasks' = tasks
            /\ grc' = IF tasks = <<>> THEN 0 ELSE -1
            /\ gpc' = IF tasks = <<>> THEN "exit" ELSE "loop"
    /\ UNCHANGED <<gargs, gresults, gdone, gerrors,
                   rvars, mvars, cvars, evars, dvars, tvars, avars, ivars>>

\* one iteration of the sequential loop (workers <= 1): the worker returns a
\* row, with or without a typed error, which is written; or it raises and
\* the run ends with the traceback
ExtractSequential ==
    /\ gpc = "loop"
    /\ gargs.mode = "extract"
    /\ ~gargs.parallel
    /\ gtasks # <<>>
    /\ \E outcome \in {"", "checkout_failed", "raise"} :
         IF outcome = "raise"
         THEN /\ gpc' = "crashed"
              /\ grc' = 1
              /\ UNCHANGED <<gfile, gerrors, gtasks>>
         ELSE /\ gfile' = [gfile EXCEPT !.rows = Append(@, WorkerRow(Head(gtasks), outcome))]
              /\ gerrors' = IF outcome # "" THEN gerrors + 1 ELSE gerrors
              /\ gtasks' = Tail(gtasks)
              /\ UNCHANGED <<gpc, grc>>
    /\ gdone' = Append(gdone, GoldKey(Head(gtasks)))
    /\ UNCHANGED <<gargs, gresults, rvars, mvars, cvars, evars, dvars, tvars, avars, ivars>>

\* one iteration of the as_completed loop (workers > 1): some submitted
\* task finishes; its row is written, or the row worker_failed if it raised
ExtractParallel ==
    /\ gpc = "loop"
    /\ gargs.mode = "extract"
    /\ gargs.parallel
    /\ \E i \in 1..Len(gtasks) : \E outcome \in {"", "checkout_failed", "raise"} :
         /\ gfile' = [gfile EXCEPT !.rows =
                         Append(@, IF outcome = "raise" THEN WorkerFailedRow
                                   ELSE WorkerRow(gtasks[i], outcome))]
         /\ gerrors' = IF outcome # "" THEN gerrors + 1 ELSE gerrors
         /\ gdone' = Append(gdone, GoldKey(gtasks[i]))
         /\ gtasks' = SubSeq(gtasks, 1, i - 1) \o SubSeq(gtasks, i + 1, Len(gtasks))
    /\ UNCHANGED <<gargs, gresults, gpc, grc,
                   rvars, mvars, cvars, evars, dvars, tvars, avars, ivars>>

\* the end of extract_gold_symbols_fullset and sys.exit(rc)
FinishExtract ==
    /\ gpc = "loop"
    /\ gargs.mode = "extract"
    /\ gtasks = <<>>
    /\ grc' = IF gerrors = 0 THEN 0 ELSE 2
    /\ gpc' = "exit"
    /\ UNCHANGED <<gargs, gfile, gtasks, gresults, gdone, gerrors,
                   rvars, mvars, cvars, evars, dvars, tvars, avars, ivars>>

\* main in evaluation mode up to its loop: the availability check and the
\* list of predictions (one for each gold row)
StartEvaluate ==
    /\ gpc = "start"
    /\ gargs.mode = "evaluate"
    /\ IF ~TsAvailable(gargs)
       THEN /\ grc' = 1
            /\ gpc' = "exit"
            /\ UNCHANGED gtasks
       ELSE /\ gtasks' = gargs.golds
            /\ gpc' = "loop"
            /\ UNCHANGED grc
    /\ UNCHANGED <<gargs, gfile, gresults, gdone, gerrors,
                   rvars, mvars, cvars, evars, dvars, tvars, avars, ivars>>

\* one iteration of the loop of main: evaluate_instance returns a row, with
\* or without a typed error, or raises and the run ends with the traceback
EvaluateOne ==
    /\ gpc = "loop"
    /\ gargs.mode = "evaluate"
    /\ gtasks # <<>>
    /\ \E outcome \in {"", "checkout_failed", "raise"} :
         IF outcome = "raise"
         THEN /\ gpc' = "crashed"
              /\ grc' = 1
              /\ UNCHANGED <<gresults, gtasks>>
         ELSE /\ gresults' = Append(gresults, WorkerRow(Head(gtasks), outcome))
              /\ gtasks' = Tail(gtasks)
              /\ UNCHANGED <<gpc, grc>>
    /\ gdone' = Append(gdone, GoldKey(Head(gtasks)))
    /\ UNCHANGED <<gargs, gfile, gerrors,
                   rvars, mvars, cvars, evars, dvars, tvars, avars, ivars>>

\* the end of main: the results are written to --out
FinishEvaluate ==
    /\ gpc = "loop"
    /\ gargs.mode = "evaluate"
    /\ gtasks = <<>>
    /\ gfile' = [exists |-> TRUE, rows |-> gresults]
    /\ grc' = 0
    /\ gpc' = "exit"
    /\ UNCHANGED <<gargs, gtasks, gresults, gdone, gerrors,
                   rvars, mvars, cvars, evars, dvars, tvars, avars, ivars>>

NextRun ==
    \/ StartExtract \/ ExtractSequential \/ ExtractParallel \/ FinishExtract
    \/ StartEvaluate \/ EvaluateOne \/ FinishEvaluate

SpecRun == InitRun /\ [][NextRun]_vars

\* C22: the backend is checked before any instance is processed: when it is
\* unavailable no instance is evaluated or extracted, no row is written and
\* the run ends with a non-zero status, in both modes
C22_BackendCheckedFirst ==
    (gpc # "idle" /\ ~gargs.available) =>
        /\ gpc \in {"start", "exit"}
        /\ gdone = <<>>
        /\ gresults = <<>>
        /\ gfile = gargs.file0
        /\ gpc = "exit" => grc # 0

\* an extraction run with gold rows and no backend has ended with status 1
C22_Witness ==
    /\ gpc = "exit"
    /\ gargs.mode = "extract"
    /\ ~gargs.available
    /\ Len(gargs.golds) > 0
    /\ grc = 1

\* the rows of the output file that carry the key
RowsWithKey(key) == { i \in 1..Len(gfile.rows) : RowKey(gfile.rows[i]) = key }

\* C23: in the extraction mode with resume, an instance whose key is in a
\* row of the output file is not extracted again, the rows already in the
\* file stay as they are, one row is appended for each instance that
\* finishes, and when the run has completed every gold key is in exactly one
\* row of the output file
C23_ResumeSkipsWrittenKeys ==
    (gpc \in {"loop", "exit"} /\ gargs.mode = "extract" /\ gargs.resume /\ gargs.available) =>
        /\ \A i \in 1..Len(gdone) : gdone[i] \notin LoadDoneKeys(gargs.file0)
        /\ SubSeq(gfile.rows, 1, Len(gargs.file0.rows)) = gargs.file0.rows
        /\ Len(gfile.rows) = Len(gargs.file0.rows) + Len(gdone)
        /\ gpc = "exit" =>
               \A n \in 1..Len(gargs.golds) :
                   Cardinality(RowsWithKey(GoldKey(gargs.golds[n]))) = 1

====
